---- MODULE Spec2Model ----
(***************************************************************************)
(* A model of the bamf-gb Game Boy core: the CPU register file             *)
(* (CPURegister8, CPURegister16, CPURegisterPair, CPURegisterSet), the MMU  *)
(* (class.MMU.ts, the handler-map version) and the CPU (fetch, decode, the  *)
(* 256 primary operations and their helper methods).                        *)
(*                                                                          *)
(* Numbers are written in decimal; the hexadecimal value of the source is   *)
(* given in a comment where it helps.                                       *)
(*                                                                          *)
(* The MMU handlers are evaluated with the MMU object as their receiver     *)
(* (the handlers read and write this.inBIOS, this.BIOS, this.ROM, ...).     *)
(***************************************************************************)
EXTENDS Integers, Sequences, FiniteSets, TLC

(***************************************************************************)
(* Bitwise operators of JavaScript, on the two's complement form.          *)
(***************************************************************************)
RECURSIVE AndNat(_, _)
AndNat(x, y) ==
  IF x = 0 \/ y = 0 THEN 0
  ELSE (x % 2) * (y % 2) + 2 * AndNat(x \div 2, y \div 2)

RECURSIVE OrNat(_, _)
OrNat(x, y) ==
  IF x = 0 THEN y
  ELSE IF y = 0 THEN x
  ELSE (IF (x % 2) + (y % 2) > 0 THEN 1 ELSE 0) + 2 * OrNat(x \div 2, y \div 2)

RECURSIVE XorNat(_, _)
XorNat(x, y) ==
  IF x = 0 THEN y
  ELSE IF y = 0 THEN x
  ELSE ((x + y) % 2) + 2 * XorNat(x \div 2, y \div 2)

\* The low 24 bits of the two's complement form of n (n may be negative).
Low24(n) == n % 16777216

\* x & mask, for a mask below 2^24 (every mask of the source is at most 0xffff).
\* A mask of k low one bits keeps x modulo 2^k, in two's complement as well.
BitAnd(x, mask) ==
  IF mask \in {15, 127, 255, 4095, 8191, 65535}
    THEN x % (mask + 1)
    ELSE AndNat(Low24(x), mask)

\* x | y and x ^ y for operands that are not negative.
BitOr(x, y) == OrNat(x, y)

BitXor(x, y) == XorNat(x, y)

(***************************************************************************)
(* Registers.  `registers` maps a register name to the `value` field of    *)
(* that register object; for a pair (af, bc, de, hl) the field is the       *)
(* pair's own cached value, which the getter refreshes from the halves.     *)
(***************************************************************************)
Reg8Names == {"a", "b", "c", "d", "e", "f", "h", "l"}

Reg16Names == {"pc", "sp"}

PairNames == {"af", "bc", "de", "hl"}

RegNames == Reg8Names \cup Reg16Names \cup PairNames

\* CPURegisterSet.constructor: new CPURegisterPair(this.a, this.f), ...
PairHigh == [af |-> "a", bc |-> "b", de |-> "d", hl |-> "h"]

PairLow == [af |-> "f", bc |-> "c", de |-> "e", hl |-> "l"]

\* CPURegister8: get Value() { return this.value & 0xff }
Reg8Get(value) == BitAnd(value, 255)

\* Reg8Set without the mask: this.value = n
Reg8Set_Unmasked(n) == n

\* CPURegister8: set Value(n) { this.value = n & 0xff }
Reg8Set(n) == BitAnd(n, 255)

\* CPURegister16: get Value() { return this.value & 0xffff }
Reg16Get(value) == BitAnd(value, 65535)

\* CPURegister16: set Value(n) { this.value = n & 0xffff }
Reg16Set(n) == BitAnd(n, 65535)

\* PairCompose without the shift: (high.Value | low.Value) & 0xffff
PairCompose_Unshifted(high, low) == BitAnd(BitOr(high, low), 65535)

\* CPURegisterPair: get Value(): ((high.Value << 8) | low.Value) & 0xffff
PairCompose(high, low) == BitAnd(BitOr(high * 256, low), 65535)

\* CPURegisterPair: set Value(n): high.Value = (n & 0xff00) >> 8
PairSplitHigh(n) == BitAnd(n, 65280) \div 256

\* CPURegisterPair: set Value(n): low.Value = n & 0xff
PairSplitLow(n) == BitAnd(n, 255)

\* The number a read of register r returns.
RegValue(regs, r) ==
  IF r \in PairNames
    THEN PairCompose(Reg8Get(regs[PairHigh[r]]), Reg8Get(regs[PairLow[r]]))
  ELSE IF r \in Reg16Names THEN Reg16Get(regs[r])
  ELSE Reg8Get(regs[r])

\* The register file after a read of r (a pair's getter stores what it returns).
RegRead(regs, r) ==
  IF r \in PairNames THEN [regs EXCEPT ![r] = RegValue(regs, r)] ELSE regs

\* RegWrite whose pair setter leaves the high half as it was
RegWrite_KeepsHigh(regs, r, n) ==
  IF r \in PairNames
    THEN [regs EXCEPT ![r] = BitAnd(n, 65535),
                      ![PairLow[r]] = Reg8Set(PairSplitLow(n))]
  ELSE IF r \in Reg16Names THEN [regs EXCEPT ![r] = Reg16Set(n)]
  ELSE [regs EXCEPT ![r] = Reg8Set(n)]

\* The register file after `r.Value = n`.
RegWrite(regs, r, n) ==
  IF r \in PairNames
    THEN [regs EXCEPT ![r] = BitAnd(n, 65535),
                      ![PairHigh[r]] = Reg8Set(PairSplitHigh(n)),
                      ![PairLow[r]] = Reg8Set(PairSplitLow(n))]
  ELSE IF r \in Reg16Names THEN [regs EXCEPT ![r] = Reg16Set(n)]
  ELSE [regs EXCEPT ![r] = Reg8Set(n)]

(***************************************************************************)
(* The machine.  The operators below take and return a record m:           *)
(*   registers  the register file                                          *)
(*   clock      the `value` field of CPU.clock (a CPURegister8)            *)
(*   mmu        the fields of the MMU                                      *)
(*   error      the message of the exception in flight, or NoError         *)
(*   ret        the value the last call returned                           *)
(*   reads      the BIOS cells read so far in the current operation        *)
(* A thrown exception ends the call: every operator passes a failed        *)
(* machine on unchanged.                                                   *)
(***************************************************************************)
NoError == "none"

\* JavaScript's undefined, as a return value or a missing writeValue.
Undefined == 0 - 1

Failed(m) == m.error # NoError

Throw(m, message) == IF Failed(m) THEN m ELSE [m EXCEPT !.error = message]

Return(m, value) == IF Failed(m) THEN m ELSE [m EXCEPT !.ret = value]

(***************************************************************************)
(* Typed arrays.  A Uint8Array is a set of <<index, byte>> pairs holding    *)
(* its nonzero cells (new Uint8Array(n) is all zero).  The BIOS image is    *)
(* imported data: it holds a pair for every cell whose byte is known.       *)
(***************************************************************************)
Known(buf, i) == \E p \in buf : p[1] = i

Cell(buf, i) == (CHOOSE p \in buf : p[1] = i)[2]

\* buf[i] of a zero-initialised Uint8Array of the given length.
ArrayGet(buf, length, i) ==
  IF i < 0 \/ i >= length THEN Undefined
  ELSE IF Known(buf, i) THEN Cell(buf, i) ELSE 0

\* buf[i] = v of a Uint8Array: the byte is v & 0xff, out of range is a no-op.
ArraySet(buf, length, i, v) ==
  IF i < 0 \/ i >= length THEN buf
  ELSE LET rest == {p \in buf : p[1] # i}
           byte == BitAnd(v, 255)
       IN  IF byte = 0 THEN rest ELSE rest \cup {<<i, byte>>}

\* this.BIOS[i] = v: the cell becomes known, zero included.
ImageSet(buf, length, i, v) ==
  IF i < 0 \/ i >= length THEN buf
  ELSE {p \in buf : p[1] # i} \cup {<<i, BitAnd(v, 255)>>}

\* this.BIOS[i]: a cell not yet known reads as 0 here; Step settles it.
ImageGet(buf, length, i) ==
  IF i < 0 \/ i >= length THEN Undefined
  ELSE IF Known(buf, i) THEN Cell(buf, i) ELSE 0

BIOSSize == 256

ROMSize == 16384

WorkingRAMSize == 8192

ExternalRAMSize == 8192

ZeroPageRAMSize == 128

\* MMU.constructor
NewMMU ==
  [inBIOS |-> TRUE, BIOS |-> {}, ROM |-> {}, workingRAM |-> {},
   externalRAM |-> {}, zeroPageRAM |-> {}]

(***************************************************************************)
(* MMU handlers: handleX(m, address, writeValue), a read when writeValue   *)
(* is Undefined.  A handler that returns nothing returns Undefined.        *)
(***************************************************************************)
handle0000(m, address, writeValue) ==
  LET toBIOS == m.mmu.inBIOS /\ address < 256
  IN  IF writeValue = Undefined
        THEN IF toBIOS
               THEN [m EXCEPT !.ret = ImageGet(m.mmu.BIOS, BIOSSize, address),
                              !.reads = @ \cup {address}]
               ELSE Return(m, ArrayGet(m.mmu.ROM, ROMSize, address))
      ELSE IF toBIOS
        THEN [m EXCEPT !.mmu.BIOS = ImageSet(@, BIOSSize, address, writeValue),
                       !.ret = Undefined]
      ELSE [m EXCEPT !.mmu.ROM = ArraySet(@, ROMSize, address, writeValue),
                     !.ret = Undefined]

handle1000(m, address, writeValue) ==
  IF writeValue = Undefined
    THEN Return(m, ArrayGet(m.mmu.ROM, ROMSize, address))
  ELSE [m EXCEPT !.mmu.ROM = ArraySet(@, ROMSize, address, address),
                 !.ret = Undefined]

handle4000(m, address, writeValue) ==
  IF writeValue = Undefined
    THEN Return(m, ArrayGet(m.mmu.ROM, ROMSize, address))
  ELSE [m EXCEPT !.mmu.ROM = ArraySet(@, ROMSize, address, address),
                 !.ret = Undefined]

\* handle8000 that accepts the access: a read returns 0, a write is dropped
handle8000_Silent(m, address, writeValue) ==
  Return(m, IF writeValue = Undefined THEN 0 ELSE Undefined)

handle8000(m, address, writeValue) == Throw(m, "VRAM not implemented.")

\* handleA000 whose write lands in working RAM instead of external RAM
handleA000_WritesWorking(m, address, writeValue) ==
  IF writeValue = Undefined
    THEN Return(m, ArrayGet(m.mmu.externalRAM, ExternalRAMSize, BitAnd(address, 8191)))
  ELSE [m EXCEPT !.mmu.workingRAM =
                     ArraySet(@, WorkingRAMSize, BitAnd(address, 8191), writeValue),
                 !.ret = Undefined]

handleA000(m, address, writeValue) ==
  IF writeValue = Undefined
    THEN Return(m, ArrayGet(m.mmu.externalRAM, ExternalRAMSize, BitAnd(address, 8191)))
  ELSE [m EXCEPT !.mmu.externalRAM =
                     ArraySet(@, ExternalRAMSize, BitAnd(address, 8191), writeValue),
                 !.ret = Undefined]

\* handleC000 whose write lands in external RAM instead of working RAM
handleC000_WritesExternal(m, address, writeValue) ==
  IF writeValue = Undefined
    THEN Return(m, ArrayGet(m.mmu.workingRAM, WorkingRAMSize, BitAnd(address, 8191)))
  ELSE [m EXCEPT !.mmu.externalRAM =
                     ArraySet(@, ExternalRAMSize, BitAnd(address, 8191), writeValue),
                 !.ret = Undefined]

handleC000(m, address, writeValue) ==
  IF writeValue = Undefined
    THEN Return(m, ArrayGet(m.mmu.workingRAM, WorkingRAMSize, BitAnd(address, 8191)))
  ELSE [m EXCEPT !.mmu.workingRAM =
                     ArraySet(@, WorkingRAMSize, BitAnd(address, 8191), writeValue),
                 !.ret = Undefined]

\* handleF000 whose working RAM shadow masks with 0x0fff instead of 0x1fff
handleF000_ShortShadow(m, address, writeValue) ==
  LET address2 == BitAnd(address, 3840)   \* address & 0x0f00
  IN  IF address2 <= 3328                 \* 0xd00: working RAM shadow
        THEN IF writeValue = Undefined
               THEN Return(m, ArrayGet(m.mmu.workingRAM, WorkingRAMSize,
                                       BitAnd(address, 4095)))
             ELSE [m EXCEPT !.mmu.workingRAM =
                                ArraySet(@, WorkingRAMSize, BitAnd(address, 4095),
                                         writeValue),
                            !.ret = Undefined]
      ELSE IF address2 = 3584             \* 0xe00
        THEN IF address < 65184           \* 0xfea0
               THEN Throw(m, "GPU OAM not implemented.")
             ELSE IF writeValue = Undefined THEN Return(m, 0)
             ELSE Return(m, Undefined)
      ELSE IF address >= 65408            \* 0xff80: zero-page RAM
        THEN IF writeValue = Undefined
               THEN Return(m, ArrayGet(m.mmu.zeroPageRAM, ZeroPageRAMSize,
                                       BitAnd(address, 127)))
             ELSE [m EXCEPT !.mmu.zeroPageRAM =
                                ArraySet(@, ZeroPageRAMSize, BitAnd(address, 127),
                                         writeValue),
                            !.ret = Undefined]
      ELSE Throw(m, "I/O Control not implemented.")

handleF000(m, address, writeValue) ==
  LET address2 == BitAnd(address, 3840)   \* address & 0x0f00
  IN  IF address2 <= 3328                 \* 0xd00: working RAM shadow
        THEN IF writeValue = Undefined
               THEN Return(m, ArrayGet(m.mmu.workingRAM, WorkingRAMSize,
                                       BitAnd(address, 8191)))
             ELSE [m EXCEPT !.mmu.workingRAM =
                                ArraySet(@, WorkingRAMSize, BitAnd(address, 8191),
                                         writeValue),
                            !.ret = Undefined]
      ELSE IF address2 = 3584             \* 0xe00
        THEN IF address < 65184           \* 0xfea0
               THEN Throw(m, "GPU OAM not implemented.")
             ELSE IF writeValue = Undefined THEN Return(m, 0)
             ELSE Return(m, Undefined)
      ELSE IF address >= 65408            \* 0xff80: zero-page RAM
        THEN IF writeValue = Undefined
               THEN Return(m, ArrayGet(m.mmu.zeroPageRAM, ZeroPageRAMSize,
                                       BitAnd(address, 127)))
             ELSE [m EXCEPT !.mmu.zeroPageRAM =
                                ArraySet(@, ZeroPageRAMSize, BitAnd(address, 127),
                                         writeValue),
                            !.ret = Undefined]
      ELSE Throw(m, "I/O Control not implemented.")

\* this.map[key](address, writeValue), key = address & 0xf000
MapCall(m, key, address, writeValue) ==
  IF Failed(m) THEN m
  ELSE IF key = 0 THEN handle0000(m, address, writeValue)
  ELSE IF key \in {4096, 8192, 12288} THEN handle1000(m, address, writeValue)
  ELSE IF key \in {16384, 20480, 24576, 28672} THEN handle4000(m, address, writeValue)
  ELSE IF key \in {32768, 36864} THEN handle8000(m, address, writeValue)
  ELSE IF key \in {40960, 45056} THEN handleA000(m, address, writeValue)
  ELSE IF key \in {49152, 53248, 57344} THEN handleC000(m, address, writeValue)
  ELSE handleF000(m, address, writeValue)

\* MMU.readByte: if (result == null) throw ...; return result
ReadResult(r) ==
  IF Failed(r) THEN r
  ELSE IF r.ret = Undefined
    THEN Throw(r, "Unexpected non-number value from read.")
  ELSE r

\* MMU.readByte: address &= 0xffff; this.map[address & 0xf000](address)
readByte(m, address) ==
  ReadResult(MapCall(m, BitAnd(BitAnd(address, 65535), 61440),
                     BitAnd(address, 65535), Undefined))

\* low + (high << 8), high being what the second read returned
WordOf(hi, low) == Return(hi, low + hi.ret * 256)

\* the second read of MMU.readWord, after the first left machine lo
ReadHigh(lo, address) == WordOf(readByte(lo, address), lo.ret)

\* MMU.readWord: readByte(address) + (readByte(address + 1) << 8)
readWord(m, address) ==
  ReadHigh(readByte(m, BitAnd(address, 65535)), BitAnd(address, 65535) + 1)

\* MMU.writeByte: the address is not masked
writeByte(m, address, writeValue) ==
  MapCall(m, BitAnd(address, 61440), address, BitAnd(writeValue, 255))

\* writeWord that stores the high byte first (big-endian)
writeWord_BigEndian(m, address, writeValue) ==
  LET value == BitAnd(writeValue, 65535)
      hi == writeByte(m, address, value \div 256)
  IN  writeByte(hi, address + 1, BitAnd(value, 255))

\* MMU.writeWord
writeWord(m, address, writeValue) ==
  LET value == BitAnd(writeValue, 65535)
      lo == writeByte(m, address, BitAnd(value, 255))
  IN  writeByte(lo, address + 1, value \div 256)

(***************************************************************************)
(* CPU: register and flag access on the machine record.                    *)
(***************************************************************************)
\* CPURegisterSet.constructor and CPU.constructor: every value field is 0.
NewRegisters == [r \in RegNames |-> 0]

\* The value of register r.
V(m, r) == RegValue(m.registers, r)

\* A read of register r for its side effect on the pair's cached value.
Touch(m, r) == IF Failed(m) THEN m ELSE [m EXCEPT !.registers = RegRead(@, r)]

\* r.Value = n
Set(m, r, n) == IF Failed(m) THEN m ELSE [m EXCEPT !.registers = RegWrite(@, r, n)]

\* r.Value++ (delta 1), r.Value-- (delta -1), r.Value += delta
Bump(m, r, delta) == Set(Touch(m, r), r, V(m, r) + delta)

ZeroBit == 128

SubtractBit == 64

HalfCarryBit == 32

CarryBit == 16

\* get ZeroFlag, SubtractFlag, HalfCarryFlag, CarryFlag: !!(f.Value & bit)
Flag(m, bit) == BitAnd(V(m, "f"), bit) # 0

\* set ...Flag(val): f.Value |= bit, or f.Value &= 0xff - bit
SetFlag(m, bit, val) ==
  Set(m, "f", IF val THEN BitOr(V(m, "f"), bit) ELSE BitAnd(V(m, "f"), 255 - bit))

\* byteToSigned without the sign extension: byte & 0xff
byteToSigned_Unsigned(byte) == BitAnd(byte, 255)

\* ((byte & 0xff) << 24) >> 24 on 32-bit signed integers: the left shift
\* moves bit 7 of the byte into the sign bit, the arithmetic right shift
\* brings the byte back with that sign extended.
byteToSigned(byte) ==
  LET low == BitAnd(byte, 255)
  IN  IF BitAnd(low, 128) # 0 THEN low - 256 ELSE low

(***************************************************************************)
(* CPU helper methods.                                                     *)
(***************************************************************************)
\* fetch that does not advance PC: this.mmu.readByte(this.registers.pc.Value)
fetch_NoAdvance(m) == readByte(m, V(m, "pc"))

\* CPU.fetch: this.mmu.readByte(this.registers.pc.Value++)
fetch(m) == readByte(Bump(m, "pc", 1), V(m, "pc"))

loadRegisterToRegister(m, source, destination) == Set(m, destination, V(m, source))

\* register.Value = the value machine r returned
SetReturned(r, register) == Set(r, register, r.ret)

loadImmediateWordToRegister(m, register) ==
  Bump(SetReturned(readWord(m, V(m, "pc")), register), "pc", 2)

\* this.ZeroFlag = register.Value === 0
SetZeroFlagFrom(m, register) == SetFlag(m, ZeroBit, V(m, register) = 0)

\* incrementRegister that takes the half carry from the incremented value
incrementRegister_HalfFromResult(m, register) ==
  SetZeroFlagFrom(
    SetFlag(SetFlag(Bump(m, register, 1),
                    HalfCarryBit, BitAnd(V(m, register) + 1, 15) + 1 > 15),
            SubtractBit, FALSE),
    register)

incrementRegister(m, register) ==
  SetZeroFlagFrom(
    SetFlag(SetFlag(Bump(m, register, 1),
                    HalfCarryBit, BitAnd(V(m, register), 15) + 1 > 15),
            SubtractBit, FALSE),
    register)

decrementRegister(m, register) ==
  SetZeroFlagFrom(
    SetFlag(SetFlag(Bump(m, register, 0 - 1),
                    HalfCarryBit, BitAnd(V(m, register), 15) - 1 < 0),
            SubtractBit, TRUE),
    register)

\* AddWords that sets the carry flag on a carry out of bit 11
AddWords_CarryOutOfBit11(m, hl, value) ==
  Bump(SetFlag(SetFlag(SetFlag(Touch(m, "hl"), SubtractBit, FALSE),
                       HalfCarryBit, BitAnd(hl, 4095) + BitAnd(value, 4095) > 4095),
               CarryBit, hl + value > 4095),
       "hl", value)

\* addWordToHL on hl = HL.Value and value = word & 0xffff
AddWords(m, hl, value) ==
  Bump(SetFlag(SetFlag(SetFlag(Touch(m, "hl"), SubtractBit, FALSE),
                       HalfCarryBit, BitAnd(hl, 4095) + BitAnd(value, 4095) > 4095),
               CarryBit, hl + value > 65535),
       "hl", value)

addWordToHL(m, word) == AddWords(m, V(m, "hl"), BitAnd(word, 65535))

\* The bodies of the accumulator helpers, on a = A.Value, value = byte & 0xff
\* and cf = the carry flag as 0 or 1 (0 where the helper does not read it).
\* AddToA whose half carry leaves the carry-in out of the nibble sum
AddToA_HalfWithoutCarryIn(m, a, value, cf) ==
  SetFlag(SetZeroFlagFrom(
            SetFlag(SetFlag(Set(m, "a", a + value + cf),
                            CarryBit, a + value + cf > 255),
                    HalfCarryBit, BitAnd(a, 15) + BitAnd(value, 15) > 15),
            "a"),
          SubtractBit, FALSE)

AddToA(m, a, value, cf) ==
  SetFlag(SetZeroFlagFrom(
            SetFlag(SetFlag(Set(m, "a", a + value + cf),
                            CarryBit, a + value + cf > 255),
                    HalfCarryBit, BitAnd(a, 15) + BitAnd(value, 15) + cf > 15),
            "a"),
          SubtractBit, FALSE)

SubtractFromA(m, a, value, cf) ==
  SetFlag(SetZeroFlagFrom(
            SetFlag(SetFlag(Set(m, "a", a - value - cf),
                            CarryBit, a - value - cf < 0),
                    HalfCarryBit, BitAnd(a, 15) - BitAnd(value, 15) - cf < 0),
            "a"),
          SubtractBit, TRUE)

\* CompareWithA that sets Z from A alone
CompareWithA_ZeroFromA(m, a, value) ==
  SetFlag(SetFlag(SetFlag(SetFlag(m, CarryBit, a - value < 0),
                          HalfCarryBit, BitAnd(a, 15) - BitAnd(value, 15) < 0),
                  ZeroBit, a = 0),
          SubtractBit, TRUE)

CompareWithA(m, a, value) ==
  SetFlag(SetFlag(SetFlag(SetFlag(m, CarryBit, a - value < 0),
                          HalfCarryBit, BitAnd(a, 15) - BitAnd(value, 15) < 0),
                  ZeroBit, a - value = 0),
          SubtractBit, TRUE)

\* LogicalIntoA that leaves the carry flag as it was
LogicalIntoA_KeepsCarry(m, result, half) ==
  SetZeroFlagFrom(
    SetFlag(SetFlag(Set(m, "a", result), HalfCarryBit, half),
            SubtractBit, FALSE),
    "a")

\* A.Value = result; C = 0; H = half; N = 0; Z = A.Value === 0
LogicalIntoA(m, result, half) ==
  SetZeroFlagFrom(
    SetFlag(SetFlag(SetFlag(Set(m, "a", result), CarryBit, FALSE),
                    HalfCarryBit, half),
            SubtractBit, FALSE),
    "a")

CarryIn(m) == IF Flag(m, CarryBit) THEN 1 ELSE 0

addByteToA(m, byte) == AddToA(m, V(m, "a"), BitAnd(byte, 255), 0)

addByteAndCarryIntoA(m, byte) ==
  AddToA(m, V(m, "a"), BitAnd(byte, 255), CarryIn(m))

subtractByteFromA(m, byte) == SubtractFromA(m, V(m, "a"), BitAnd(byte, 255), 0)

compareByteWithA(m, byte) == CompareWithA(m, V(m, "a"), BitAnd(byte, 255))

\* subtractByteAndCarryFromA that leaves the borrow out
subtractByteAndCarryFromA_NoBorrowIn(m, byte) ==
  SubtractFromA(m, V(m, "a"), BitAnd(byte, 255), 0)

subtractByteAndCarryFromA(m, byte) ==
  SubtractFromA(m, V(m, "a"), BitAnd(byte, 255), CarryIn(m))

logicalAndByteWithA(m, value) == LogicalIntoA(m, BitAnd(V(m, "a"), value), TRUE)

logicalXorByteWithA(m, value) == LogicalIntoA(m, BitXor(V(m, "a"), value), FALSE)

logicalOrByteWithA(m, value) == LogicalIntoA(m, BitOr(V(m, "a"), value), FALSE)

popFromStackIntoRegister(m, register) ==
  Bump(SetReturned(readWord(m, V(m, "sp")), register), "sp", 2)

\* this.mmu.writeWord(sp.Value, value)
WriteAtSP(m, value) == writeWord(m, V(m, "sp"), value)

\* pushWordToStack that writes before it decrements SP
pushWordToStack_WriteFirst(m, value) == Bump(WriteAtSP(m, value), "sp", 0 - 2)

\* sp.Value -= 2; this.mmu.writeWord(sp.Value, value)
pushWordToStack(m, value) == WriteAtSP(Bump(m, "sp", 0 - 2), value)

\* this.mmu.writeWord(sp.Value, pc.Value)
WritePCAtSP(m) == writeWord(m, V(m, "sp"), V(m, "pc"))

\* callSubroutine from the push on: sp.Value -= 2; writeWord(sp, pc); pc = address
PushPCAndJump(m, subroutineAddress) ==
  Set(WritePCAtSP(Bump(m, "sp", 0 - 2)), "pc", subroutineAddress)

\* CallReturned without pc.Value += 2: the address pushed is that of nn
CallReturned_NoAdvance(w) == PushPCAndJump(w, w.ret)

\* callSubroutine of CALL, w being the machine after readWord(pc.Value)
CallReturned(w) == PushPCAndJump(Bump(w, "pc", 2), w.ret)

\* callSubroutine that takes resetByteOffset for the address itself
callSubroutine_OffsetAsAddress(m, resetByteOffset) ==
  IF resetByteOffset = Undefined THEN CallReturned(readWord(m, V(m, "pc")))
  ELSE PushPCAndJump(m, resetByteOffset)

\* resetByteOffset is Undefined for CALL, t for RST t.
callSubroutine(m, resetByteOffset) ==
  IF resetByteOffset = Undefined THEN CallReturned(readWord(m, V(m, "pc")))
  ELSE PushPCAndJump(m, resetByteOffset * 8)

(***************************************************************************)
(* The primary operations table, this.operations[opcode].fn().  The source *)
(* spells out one entry per opcode; entries that differ only in the        *)
(* register they name are grouped by the opcode's bit fields.  The machine *)
(* returned has ret = the M-cycles the entry returns, or the error thrown. *)
(***************************************************************************)
\* Operand order of the 8-bit register columns: B C D E H L (HL) A.
Reg8ByCode == <<"b", "c", "d", "e", "h", "l", "(hl)", "a">>

\* Operand order of the 16-bit register rows 0x0_, 0x1_, 0x2_, 0x3_.
Reg16ByCode == <<"bc", "de", "hl", "sp">>

\* Operand order of PUSH/POP rows 0xc_, 0xd_, 0xe_, 0xf_.
StackRegByCode == <<"bc", "de", "hl", "af">>

\* Opcodes whose entry is `throw new Error("Instruction not implemented.")`.
NotImplemented ==
  {16, 118, 211, 217, 219, 221, 224, 226, 227, 228, 232, 233, 234, 235, 236,
   237, 240, 242, 243, 244, 248, 249, 250, 251, 252, 253}

\* Condition that reads NZ as Z
Condition_NotZeroAsZero(m, opcode) ==
  LET cc == (opcode \div 8) % 4
  IN  IF cc \in {0, 1} THEN Flag(m, ZeroBit)
      ELSE IF cc = 2 THEN ~Flag(m, CarryBit)
      ELSE Flag(m, CarryBit)

\* The condition of JR cc / RET cc / JP cc / CALL cc: NZ, Z, NC, C.
Condition(m, opcode) ==
  LET cc == (opcode \div 8) % 4
  IN  IF cc = 0 THEN ~Flag(m, ZeroBit)
      ELSE IF cc = 1 THEN Flag(m, ZeroBit)
      ELSE IF cc = 2 THEN ~Flag(m, CarryBit)
      ELSE Flag(m, CarryBit)

\* The eight accumulator operations, in the order of rows 0x80 .. 0xbf.
Alu(m, k, value) ==
  IF Failed(m) THEN m
  ELSE IF k = 0 THEN addByteToA(m, value)
  ELSE IF k = 1 THEN addByteAndCarryIntoA(m, value)
  ELSE IF k = 2 THEN subtractByteFromA(m, value)
  ELSE IF k = 3 THEN subtractByteAndCarryFromA(m, value)
  ELSE IF k = 4 THEN logicalAndByteWithA(m, value)
  ELSE IF k = 5 THEN logicalXorByteWithA(m, value)
  ELSE IF k = 6 THEN logicalOrByteWithA(m, value)
  ELSE compareByteWithA(m, value)

\* pc.Value += byteToSigned(the byte machine operand returned)
JumpBy(operand) == Return(Bump(operand, "pc", byteToSigned(operand.ret)), 3)

\* JR n, and the taken branch of JR cc, n.
JumpRelative(m) == JumpBy(fetch(m))

\* a.Value = (a.Value << 1) | carry, or (a.Value >> 1) | (carry << 7)
RotateInto(m, left, carryIn) ==
  Return(Set(m, "a", IF left THEN BitOr(V(m, "a") * 2, IF carryIn THEN 1 ELSE 0)
                     ELSE BitOr(V(m, "a") \div 2, IF carryIn THEN 128 ELSE 0)), 1)

\* RotateThrough that rotates the old carry flag in for every rotation
RotateThrough_AlwaysOldCarry(m, left, circular, oldCarryFlag) ==
  RotateInto(m, left, oldCarryFlag)

\* The bit rotated in: the new carry flag (RLCA, RRCA) or the old one (RLA, RRA).
RotateThrough(m, left, circular, oldCarryFlag) ==
  RotateInto(m, left, IF circular THEN Flag(m, CarryBit) ELSE oldCarryFlag)

\* this.CarryFlag = (a.Value & 0x80) > 0, or (a.Value & 0x01) > 0
RotateCarry(m, left, circular) ==
  RotateThrough(SetFlag(m, CarryBit, BitAnd(V(m, "a"), IF left THEN 128 ELSE 1) > 0),
                left, circular, Flag(m, CarryBit))

\* 0x07 RLCA, 0x0f RRCA, 0x17 RLA, 0x1f RRA
RotateA(m, opcode) ==
  RotateCarry(SetFlag(SetFlag(SetFlag(m, HalfCarryBit, FALSE), SubtractBit, FALSE),
                      ZeroBit, FALSE),
              opcode \in {7, 23}, opcode \in {7, 15})

\* a.Value += correction * sign; H = 0; Z = a.Value === 0
DecimalCorrect(m, sign, correction) ==
  Return(SetZeroFlagFrom(SetFlag(Set(m, "a", V(m, "a") + correction * sign),
                                 HalfCarryBit, FALSE),
                         "a"), 1)

\* DecimalLow that tests the low nibble after a subtraction as well
DecimalLow_NibbleTestOnSubtract(m, subtract, high) ==
  DecimalCorrect(m, IF subtract THEN 0 - 1 ELSE 1,
                 BitOr(IF high THEN 96 ELSE 0,
                       IF Flag(m, HalfCarryBit) \/ BitAnd(V(m, "a"), 15) > 9
                         THEN 6 ELSE 0))

\* The second test of DAA, on the machine the first test left.
DecimalLow(m, subtract, high) ==
  DecimalCorrect(m, IF subtract THEN 0 - 1 ELSE 1,
                 BitOr(IF high THEN 96 ELSE 0,
                       IF Flag(m, HalfCarryBit)
                          \/ (~subtract /\ BitAnd(V(m, "a"), 15) > 9)
                         THEN 6 ELSE 0))

\* The first test of DAA: correction |= 0x60; this.CarryFlag = true
DecimalHigh(m, subtract, high) ==
  DecimalLow(IF high THEN SetFlag(m, CarryBit, TRUE) ELSE m, subtract, high)

\* DAA that corrects the high digit only when A > 0x9F
DecimalAdjust_HighAbove9F(m) ==
  DecimalHigh(m, Flag(m, SubtractBit),
              Flag(m, CarryBit) \/ (~Flag(m, SubtractBit) /\ V(m, "a") > 159))

\* 0x27 DAA
DecimalAdjust(m) ==
  DecimalHigh(m, Flag(m, SubtractBit),
              Flag(m, CarryBit) \/ (~Flag(m, SubtractBit) /\ V(m, "a") > 153))

\* this.mmu.readByte(rr.Value)
ReadAt(m, rr) == readByte(Touch(m, rr), V(m, rr))

\* this.mmu.writeByte(rr.Value, value)
WriteAt(m, rr, value) == writeByte(Touch(m, rr), V(m, rr), value)

\* INC (HL) / DEC (HL) on the machine r that read the byte at HL
StepByte(r, delta) ==
  Return(WriteAt(SetFlag(SetFlag(SetFlag(r, HalfCarryBit,
                                         IF delta = 1 THEN BitAnd(r.ret, 15) + 1 > 15
                                         ELSE BitAnd(r.ret, 15) - 1 < 0),
                                 SubtractBit, delta # 1),
                         ZeroBit, r.ret + delta = 0),
                 "hl", r.ret + delta), 3)

\* 0x34 INC (HL) (delta 1) and 0x35 DEC (HL) (delta -1)
StepMemoryAtHL(m, delta) == StepByte(ReadAt(m, "hl"), delta)

\* this.mmu.writeByte(address, the value machine r returned)
WriteReturned(r, address) == writeByte(r, address, r.ret)

\* 0x08 LD (nn), SP on the machine w that read nn
StoreSPAt(w) == Return(writeWord(Bump(w, "pc", 2), w.ret, V(w, "sp")), 5)

\* an accumulator operation on the value machine r returned
AluReturned(r, k) == Alu(r, k, r.ret)

\* Rows 0x00 .. 0x3f.
ExecLow(m, opcode) ==
  LET column == opcode % 16
      rr == Reg16ByCode[(opcode \div 16) + 1]
      r8 == Reg8ByCode[(opcode \div 8) + 1]
  IN  IF opcode = 0 THEN Return(m, 1)
      ELSE IF opcode = 8
        THEN StoreSPAt(readWord(m, V(m, "pc")))
      ELSE IF opcode = 24 THEN JumpRelative(m)
      ELSE IF opcode \in {32, 40, 48, 56}
        THEN IF Condition(m, opcode) THEN JumpRelative(m)
             ELSE Return(Bump(m, "pc", 1), 2)
      ELSE IF opcode \in {7, 15, 23, 31} THEN RotateA(m, opcode)
      ELSE IF opcode = 39 THEN DecimalAdjust(m)
      ELSE IF opcode = 47
        THEN Return(Set(SetFlag(SetFlag(m, HalfCarryBit, FALSE), SubtractBit, FALSE),
                        "a", BitXor(V(m, "a"), 255)), 1)
      ELSE IF opcode = 55 THEN Return(SetFlag(m, CarryBit, TRUE), 1)
      ELSE IF opcode = 63
        THEN Return(SetFlag(SetFlag(SetFlag(m, HalfCarryBit, FALSE),
                                    SubtractBit, FALSE),
                            CarryBit, ~Flag(m, CarryBit)), 1)
      ELSE IF opcode = 52 THEN StepMemoryAtHL(m, 1)
      ELSE IF opcode = 53 THEN StepMemoryAtHL(m, 0 - 1)
      ELSE IF opcode = 54
        THEN Return(WriteReturned(fetch(Touch(m, "hl")), V(m, "hl")), 3)
      ELSE IF column = 1 THEN Return(loadImmediateWordToRegister(m, rr), 3)
      ELSE IF opcode \in {2, 18}
        THEN Return(WriteAt(m, rr, V(m, "a")), 2)
      ELSE IF opcode \in {34, 50}
        THEN Return(writeByte(Bump(m, "hl", IF opcode = 34 THEN 1 ELSE 0 - 1),
                              V(m, "hl"), V(m, "a")), 2)
      ELSE IF opcode \in {10, 26}
        THEN Return(SetReturned(ReadAt(m, rr), "a"), 2)
      ELSE IF opcode \in {42, 58}
        THEN Return(SetReturned(readByte(Bump(m, "hl", IF opcode = 42 THEN 1
                                                       ELSE 0 - 1),
                                         V(m, "hl")), "a"), 2)
      ELSE IF column = 3 THEN Return(Bump(m, rr, 1), 2)
      ELSE IF column = 11 THEN Return(Bump(m, rr, 0 - 1), 2)
      ELSE IF column = 9
        THEN Return(addWordToHL(Touch(m, rr), V(m, rr)), 2)
      ELSE IF column \in {4, 12} THEN Return(incrementRegister(m, r8), 1)
      ELSE IF column \in {5, 13} THEN Return(decrementRegister(m, r8), 1)
      ELSE IF column \in {6, 14}
        THEN Return(SetReturned(fetch(m), r8), 2)
      ELSE Throw(m, "Instruction not implemented.")

\* Rows 0x40 .. 0x7f: LD r, r' / LD r, (HL) / LD (HL), r / HALT.
ExecLoad(m, opcode) ==
  LET source == Reg8ByCode[(opcode % 8) + 1]
      destination == Reg8ByCode[((opcode \div 8) % 8) + 1]
  IN  IF opcode = 118 THEN Throw(m, "Instruction not implemented.")
      ELSE IF source = "(hl)"
        THEN Return(SetReturned(ReadAt(m, "hl"), destination), 2)
      ELSE IF destination = "(hl)"
        THEN Return(WriteAt(m, "hl", V(m, source)), 2)
      ELSE Return(loadRegisterToRegister(m, source, destination), 1)

\* Rows 0x80 .. 0xbf: the accumulator operations on a register or (HL).
ExecAlu(m, opcode) ==
  LET source == Reg8ByCode[(opcode % 8) + 1]
      k == (opcode - 128) \div 8
  IN  IF opcode = 182
        THEN Return(logicalOrByteWithA(Touch(m, "hl"), V(m, "hl")), 1)
      ELSE IF source = "(hl)"
        THEN Return(AluReturned(ReadAt(m, "hl"), k), 2)
      ELSE Return(Alu(m, k, V(m, source)), 1)

\* Rows 0xc0 .. 0xff.
ExecHigh(m, opcode) ==
  LET column == opcode % 16
      qq == StackRegByCode[((opcode - 192) \div 16) + 1]
  IN  IF opcode \in NotImplemented THEN Throw(m, "Instruction not implemented.")
      ELSE IF opcode = 203 THEN Throw(m, "0xCB is not an executable instruction.")
      ELSE IF opcode \in {192, 200, 208, 216}
        THEN IF Condition(m, opcode)
               THEN Return(popFromStackIntoRegister(m, "pc"), 5)
             ELSE Return(m, 2)
      ELSE IF opcode = 201 THEN Return(popFromStackIntoRegister(m, "pc"), 4)
      ELSE IF opcode \in {194, 202, 210, 218}
        THEN IF Condition(m, opcode)
               THEN Return(SetReturned(readWord(m, V(m, "pc")), "pc"), 4)
             ELSE Return(Bump(m, "pc", 2), 3)
      ELSE IF opcode = 195
        THEN Return(SetReturned(readWord(m, V(m, "pc")), "pc"), 4)
      ELSE IF opcode \in {196, 204, 212, 220}
        THEN IF Condition(m, opcode) THEN Return(callSubroutine(m, Undefined), 6)
             ELSE Return(m, 3)
      ELSE IF opcode = 205 THEN Return(callSubroutine(m, Undefined), 6)
      ELSE IF column = 1 THEN Return(popFromStackIntoRegister(m, qq), 3)
      ELSE IF column = 5 THEN Return(pushWordToStack(Touch(m, qq), V(m, qq)), 4)
      ELSE IF column \in {6, 14}
        THEN Return(AluReturned(fetch(m), (opcode - 198) \div 8), 2)
      ELSE Return(callSubroutine(m, (opcode - 199) \div 8), 4)

\* this.operations[opcode].fn()
Exec(m, opcode) ==
  IF Failed(m) THEN m
  ELSE IF opcode < 64 THEN ExecLow(m, opcode)
  ELSE IF opcode < 128 THEN ExecLoad(m, opcode)
  ELSE IF opcode < 192 THEN ExecAlu(m, opcode)
  ELSE ExecHigh(m, opcode)

(***************************************************************************)
(* State.                                                                  *)
(*   registers, clock, mmu   the fields of the CPU and of its MMU          *)
(*   error, ret              what the last operation threw / returned      *)
(*   last, earlier           history: the last operation and the one       *)
(*                           before it, each with its name, its arguments, *)
(*                           its outcome and the machine it started from   *)
(*   pushes                  history: the words pushed and not yet popped, *)
(*                           newest first, each with SP before its push    *)
(*   steps                   the number of operations performed            *)
(***************************************************************************)
VARIABLES registers, clock, mmu, error, ret, last, earlier, pushes, steps

vars == <<registers, clock, mmu, error, ret, last, earlier, pushes, steps>>

\* The machine an operation starts from.
Machine ==
  [registers |-> registers, clock |-> clock, mmu |-> mmu,
   error |-> NoError, ret |-> Undefined, reads |-> {}]

\* this.cbOperations = {}: the second bytes that have an entry.
cbOperations == {}

\* An entry of the CB table is named by 256 + its second byte, an entry of
\* the primary table by its opcode.
CBBase == 256

\* this.cbOperations[b], b the byte just fetched: undefined when absent.
CBLookup(fetched) ==
  Return(fetched,
         IF fetched.ret \in cbOperations THEN CBBase + fetched.ret ELSE Undefined)

\* decode that looks the prefix byte itself up, without a second fetch
decode_NoSecondFetch(m, byte) ==
  IF Failed(m) THEN m
  ELSE IF byte # 203 THEN Return(m, byte)
  ELSE CBLookup(Return(m, byte))

\* CPU.decode: operations[byte], or cbOperations[fetch()].
decode(m, byte) ==
  IF Failed(m) THEN m
  ELSE IF byte # 203 THEN Return(m, byte)
  ELSE CBLookup(fetch(m))

\* One fetch / decode / execute cycle; the cycles are added to the clock.
Tick(done) ==
  IF Failed(done) THEN done
  ELSE [done EXCEPT !.clock = Reg8Set(Reg8Get(@) + done.ret)]

\* Calling the fn of an entry that is undefined is a TypeError.
Execute(decoded) ==
  IF Failed(decoded) THEN decoded
  ELSE IF decoded.ret = Undefined
    THEN Throw(decoded, "TypeError: operation is undefined")
  ELSE Exec(decoded, decoded.ret)

Decode(fetched) == decode(fetched, fetched.ret)

step(m) == Tick(Execute(Decode(fetch(m))))

Settle(m, cells) == [m EXCEPT !.mmu.BIOS = @ \cup cells]

\* The BIOS cells among `cellsRead` whose byte the image has not fixed yet.
Unsettled(m, cellsRead) == {i \in cellsRead : ~Known(m.mmu.BIOS, i)}

\* The fields of a machine that outlive an operation.
Snapshot(m) == [registers |-> m.registers, clock |-> m.clock, mmu |-> m.mmu]

NoOperation ==
  [op |-> "new", opcode |-> Undefined, register |-> "", address |-> Undefined,
   value |-> Undefined, error |-> NoError, ret |-> Undefined, pushes |-> <<>>,
   before |-> [registers |-> NewRegisters, clock |-> 0, mmu |-> NewMMU]]

\* PUSH qq, CALL nn; POP qq, RET; NOP and INC B, which leave the stack alone.
PushOpcodes == {197, 213, 229, 245}

PopOpcodes == {193, 209, 225, 241}

\* The words pushed and not yet popped after an operation that ended in
\* machine r.  Any other operation, and any error, forgets them.
Pushed(r, before, name, opcode) ==
  IF name # "step" \/ Failed(r) THEN <<>>
  ELSE IF opcode \in PushOpcodes
    THEN <<[value |-> V(before, StackRegByCode[((opcode - 192) \div 16) + 1]),
            sp |-> V(before, "sp")]>> \o pushes
  ELSE IF opcode = 205
    THEN <<[value |-> (V(before, "pc") + 3) % 65536, sp |-> V(before, "sp")]>>
         \o pushes
  ELSE IF opcode \in PopOpcodes \cup {201}
    THEN IF pushes = <<>> THEN <<>> ELSE Tail(pushes)
  ELSE IF opcode \in {0, 4} THEN pushes
  ELSE <<>>

\* The state after an operation that ended in machine r.
Commit(r, before, name, opcode, register, address, value) ==
  /\ registers' = r.registers
  /\ clock' = r.clock
  /\ mmu' = r.mmu
  /\ error' = r.error
  /\ ret' = r.ret
  /\ last' = [op |-> name, opcode |-> opcode, register |-> register,
              address |-> address, value |-> value, error |-> r.error,
              ret |-> r.ret, pushes |-> pushes, before |-> Snapshot(before)]
  /\ earlier' = last
  /\ pushes' = Pushed(r, before, name, opcode)
  /\ steps' = steps + 1

(***************************************************************************)
(* The BIOS image is an input (imported data): a cell is fixed when it is  *)
(* first read.  Perform runs Op from machine m, every cell Op reads that   *)
(* the image has not fixed yet taking a byte of `data`.                    *)
(***************************************************************************)
Perform(Op(_), m, data, name, register, address, value) ==
  \E probe \in {Op(m)} :
    \E fill \in [Unsettled(m, probe.reads) -> data] :
      \E settled \in {Settle(m, {<<i, fill[i]>> : i \in DOMAIN fill})} :
        \E r \in {IF DOMAIN fill = {} THEN probe ELSE Op(settled)} :
          /\ r.reads = probe.reads
          /\ Commit(r, settled, name,
                    IF name \in {"step", "decode"} THEN fetch(settled).ret
                    ELSE Undefined,
                    register, address, value)

\* Step: the host runs one instruction.  An opcode cell the image has not
\* fixed yet takes a byte of `opcodes`.
Step(opcodes, operands) ==
  LET pc == V(Machine, "pc")
      open == Machine.mmu.inBIOS /\ pc < BIOSSize /\ Unsettled(Machine, {pc}) # {}
  IN  \E o \in IF open THEN opcodes ELSE {0} :
        Perform(step, IF open THEN Settle(Machine, {<<pc, o>>}) ELSE Machine,
                operands, "step", "", Undefined, Undefined)

\* CPU.constructor
Init ==
  /\ registers = NewRegisters
  /\ clock = 0
  /\ mmu = NewMMU
  /\ error = NoError
  /\ ret = Undefined
  /\ last = NoOperation
  /\ earlier = NoOperation
  /\ pushes = <<>>
  /\ steps = 0

(***************************************************************************)
(* Spec: the CPU runs the first MaxSteps instructions of any BIOS image    *)
(* whose operand and data bytes are drawn from Operands.                   *)
(***************************************************************************)
MaxSteps == 2

AllOpcodes == 0 .. 255

\* Operand and data bytes of the image: 0x00, 0x80, 0xff.
Operands == {0, 128, 255}

StepAny ==
  /\ steps < MaxSteps
  /\ Step(AllOpcodes, Operands)

Next == StepAny

Spec == Init /\ [][Next]_vars

(***************************************************************************)
(* SpecRegs: a client of the register file writes and reads registers      *)
(* through their Value accessors.                                          *)
(***************************************************************************)
MaxRegSteps == 2

\* Written numbers: in range, out of range, negative.
RegInputs == {0, 255, 4660, 65535, 65536 + 513, 0 - 1}

getValue(m, r) == Return(Touch(m, r), V(m, r))

setValue(m, r, n) == Return(Set(m, r, n), Undefined)

ReadRegister ==
  /\ steps < MaxRegSteps
  /\ \E r \in RegNames :
       Commit(getValue(Machine, r), Machine, "get", Undefined, r, Undefined, Undefined)

WriteRegister ==
  /\ steps < MaxRegSteps
  /\ \E r \in RegNames, n \in RegInputs :
       Commit(setValue(Machine, r, n), Machine, "set", Undefined, r, Undefined, n)

NextRegs == ReadRegister \/ WriteRegister

SpecRegs == Init /\ [][NextRegs]_vars

(***************************************************************************)
(* The MMU driven directly by a host: byte and word reads and writes.      *)
(***************************************************************************)
MaxMMUSteps == 2

\* BIOS, VRAM, external RAM, working RAM and its mirror, zero page, 0xFFFF
MMUAddresses ==
  {0, 32768, 40960, 49152, 49153, 56831, 57343, 57344, 65023, 65408,
   65534, 65535}

MMUValues == {511, 43981, 74565}

ReadByte ==
  /\ steps < MaxMMUSteps
  /\ \E a \in MMUAddresses :
       Perform(LAMBDA m : readByte(m, a), Machine, Operands,
               "readByte", "", a, Undefined)

ReadWord ==
  /\ steps < MaxMMUSteps
  /\ \E a \in MMUAddresses :
       Perform(LAMBDA m : readWord(m, a), Machine, Operands,
               "readWord", "", a, Undefined)

WriteByte ==
  /\ steps < MaxMMUSteps
  /\ \E a \in MMUAddresses, v \in MMUValues :
       Perform(LAMBDA m : writeByte(m, a, v), Machine, Operands,
               "writeByte", "", a, v)

WriteWord ==
  /\ steps < MaxMMUSteps
  /\ \E a \in MMUAddresses, v \in MMUValues :
       Perform(LAMBDA m : writeWord(m, a, v), Machine, Operands,
               "writeWord", "", a, v)

NextMMU == ReadByte \/ ReadWord \/ WriteByte \/ WriteWord

SpecMMU == Init /\ [][NextMMU]_vars

(***************************************************************************)
(* SpecStack: the CPU runs the first MaxStackSteps instructions of any     *)
(* BIOS image made of the stack instructions, INC B and NOP.               *)
(***************************************************************************)
MaxStackSteps == 5

\* INC B, PUSH BC, POP DE, POP HL, CALL nn, RET
StackOpcodes == {4, 197, 209, 225, 205, 201}

\* Operand bytes of the image: 0x00 and 0xc9 (which is also RET).
StackOperands == {0, 201}

StepStack ==
  /\ steps < MaxStackSteps
  /\ Step(StackOpcodes, StackOperands)

NextStack == StepStack

SpecStack == Init /\ [][NextStack]_vars

(***************************************************************************)
(* SpecDecode: a host places the program counter, stores bytes in RAM and  *)
(* runs the fetch and decode phase of a cycle.                             *)
(***************************************************************************)
MaxDecodeSteps == 3

\* Opcodes of every row of the table, 0xCB and its neighbours among them.
DecodeOpcodes == {0, 1, 16, 64, 118, 127, 128, 192, 202, 203, 204, 211, 254, 255}

\* Second bytes of a CB-prefixed instruction: 0x00, 0x7c (BIT 7,H), 0xff.
DecodeOperands == {0, 124, 255}

\* BIOS start and end, working RAM, the last address.
DecodeAddresses == {0, 255, 49152, 65535}

\* decode(fetch()), the first two phases of a cycle
fetchAndDecode(m) == Decode(fetch(m))

FetchAndDecode ==
  /\ steps < MaxDecodeSteps
  /\ LET pc == V(Machine, "pc")
         open == Machine.mmu.inBIOS /\ pc < BIOSSize
                   /\ Unsettled(Machine, {pc}) # {}
     IN  \E o \in IF open THEN DecodeOpcodes ELSE {0} :
           Perform(fetchAndDecode,
                   IF open THEN Settle(Machine, {<<pc, o>>}) ELSE Machine,
                   DecodeOperands, "decode", "", Undefined, Undefined)

\* registers.pc.Value = a
PlacePC ==
  /\ steps < MaxDecodeSteps
  /\ \E a \in DecodeAddresses :
       Commit(setValue(Machine, "pc", a), Machine, "set", Undefined, "pc",
              Undefined, a)

\* mmu.writeByte(a, 0xcb) into RAM
PlacePrefix ==
  /\ steps < MaxDecodeSteps
  /\ \E a \in {49152, 65535} :
       Perform(LAMBDA m : writeByte(m, a, 203), Machine, DecodeOperands,
               "writeByte", "", a, 203)

NextDecode == FetchAndDecode \/ PlacePC \/ PlacePrefix

SpecDecode == Init /\ [][NextDecode]_vars

(***************************************************************************)
(* SpecCartridge: a host reads and writes bytes of the cartridge ROM       *)
(* range and of the regions without a buffer, and the CPU runs NOP and     *)
(* JP nn of a BIOS image whose operand bytes are 0x00 and 0x01.            *)
(***************************************************************************)
MaxCartridgeSteps == 2

\* BIOS 0x0000 0x00FF; ROM 0x0100 0x1001 0x3FFF 0x4000 0x7FFF; VRAM 0x8000
\* 0x9FFF; OAM 0xFE00 0xFE9F; unused 0xFEA0 0xFEFF; I/O 0xFF00 0xFF50 0xFF7F
CartridgeAddresses ==
  {0, 255, 256, 4097, 16383, 16384, 32767, 32768, 40959, 65024, 65183,
   65184, 65279, 65280, 65360, 65407}

\* Written values: 0x1ff and 0x12345, whose low bytes are 0xff and 0x45.
CartridgeValues == {511, 74565}

\* NOP, JP nn
BootOpcodes == {0, 195}

BootOperands == {0, 1}

ReadCartridge ==
  /\ steps < MaxCartridgeSteps
  /\ \E a \in CartridgeAddresses :
       Perform(LAMBDA m : readByte(m, a), Machine, BootOperands,
               "readByte", "", a, Undefined)

WriteCartridge ==
  /\ steps < MaxCartridgeSteps
  /\ \E a \in CartridgeAddresses, v \in CartridgeValues :
       Perform(LAMBDA m : writeByte(m, a, v), Machine, BootOperands,
               "writeByte", "", a, v)

StepBoot ==
  /\ steps < MaxCartridgeSteps
  /\ Step(BootOpcodes, BootOperands)

NextCartridge == ReadCartridge \/ WriteCartridge \/ StepBoot

SpecCartridge == Init /\ [][NextCartridge]_vars

(***************************************************************************)
(* SpecClock: the CPU runs a long program of a BIOS image made of NOP and  *)
(* JP 0x0000, a loop of up to MaxClockSteps instructions.                  *)
(***************************************************************************)
MaxClockSteps == 65

\* NOP (1 M-cycle), JP nn (4 M-cycles)
ClockOpcodes == {0, 195}

ClockOperands == {0}

StepLoop ==
  /\ steps < MaxClockSteps
  /\ Step(ClockOpcodes, ClockOperands)

NextClock == StepLoop

SpecClock == Init /\ [][NextClock]_vars

(***************************************************************************)
(* CPU.reset, and SpecReset: a host writes registers, runs INC A and       *)
(* resets the CPU.                                                         *)
(***************************************************************************)
\* Object.keys(this.registers): the fields in the order the constructor of
\* CPURegisterSet assigns them.
ResetOrder ==
  <<"a", "b", "c", "d", "e", "f", "h", "l", "pc", "sp", "af", "bc", "de", "hl">>

\* this.registers[k].Value = 0 for the keys from the k-th on
RECURSIVE ResetFrom(_, _)
ResetFrom(m, k) ==
  IF k > Len(ResetOrder) THEN m
  ELSE ResetFrom(Set(m, ResetOrder[k], 0), k + 1)

\* reset that leaves the clock alone
reset_KeepsClock(m) == Return(ResetFrom(m, 1), Undefined)

\* CPU.reset
reset(m) ==
  Return([ResetFrom(m, 1) EXCEPT !.clock = Reg8Set(0)], Undefined)

MaxResetSteps == 5

\* The registers a host writes: every field of the register set.
ResetRegisters == RegNames

\* 0x1a5c3: 0xa5c3 in a 16-bit register, 0xa5 and 0xc3 in the halves of a pair
ResetInputs == {107971}

\* INC A
ResetOpcodes == {60}

WriteBeforeReset ==
  /\ steps < MaxResetSteps
  /\ \E r \in ResetRegisters, n \in ResetInputs :
       Commit(setValue(Machine, r, n), Machine, "set", Undefined, r, Undefined, n)

StepBeforeReset ==
  /\ steps < MaxResetSteps
  /\ Step(ResetOpcodes, Operands)

Reset ==
  /\ steps < MaxResetSteps
  /\ Commit(reset(Machine), Machine, "reset", Undefined, "", Undefined, Undefined)

NextReset == WriteBeforeReset \/ StepBeforeReset \/ Reset

SpecReset == Init /\ [][NextReset]_vars

(***************************************************************************)
(* SpecIncDec: INC r and DEC r applied to registers that hold any byte.    *)
(* The CPU starts from a state in which earlier loads have left byte v in  *)
(* each of A, B, C, D, E, H, L and flags f in F.                           *)
(***************************************************************************)
MaxIncDecSteps == 1

IncDecBytes == 0 .. 255

\* F before the instruction: no flag, C alone, Z N H C
IncDecFlags == {0, 16, 240}

\* INC and DEC of B, C, D, E, H, L, A
IncDecOpcodes == {4, 12, 20, 28, 36, 44, 60, 5, 13, 21, 29, 37, 45, 61}

\* The register file after LD r, v for the seven registers and F = f.
Loaded(v, f) ==
  [r \in RegNames |->
     IF r \in {"a", "b", "c", "d", "e", "h", "l"} THEN Reg8Set(v)
     ELSE IF r = "f" THEN Reg8Set(f)
     ELSE 0]

InitIncDec ==
  /\ \E v \in IncDecBytes, f \in IncDecFlags : registers = Loaded(v, f)
  /\ clock = 0
  /\ mmu = NewMMU
  /\ error = NoError
  /\ ret = Undefined
  /\ last = NoOperation
  /\ earlier = NoOperation
  /\ pushes = <<>>
  /\ steps = 0

StepIncDec ==
  /\ steps < MaxIncDecSteps
  /\ Step(IncDecOpcodes, Operands)

NextIncDec == StepIncDec

SpecIncDec == InitIncDec /\ [][NextIncDec]_vars

(***************************************************************************)
(* SpecAlu: the eight accumulator operations with an immediate operand or  *)
(* with A itself as the operand.  The CPU starts from a state in which     *)
(* earlier instructions have left any byte in A and the flags in F; the    *)
(* operand byte is any byte of the BIOS image.                             *)
(***************************************************************************)
MaxAluSteps == 1

AluBytes == 0 .. 255

\* F before the instruction: every flag clear, every flag set
AluFlags == {0, 240}

\* ADD A,n  ADC A,n  SUB n  SBC A,n  AND n  XOR n  OR n  CP n
AluImmediate == {198, 206, 214, 222, 230, 238, 246, 254}

\* ADD A,A  ADC A,A  SUB A  SBC A,A  AND A  XOR A  OR A  CP A
AluOnA == {135, 143, 151, 159, 167, 175, 183, 191}

\* The register file with A = a and F = f.
Accumulated(a, f) ==
  [r \in RegNames |->
     IF r = "a" THEN Reg8Set(a) ELSE IF r = "f" THEN Reg8Set(f) ELSE 0]

InitAlu ==
  /\ \E a \in AluBytes, f \in AluFlags : registers = Accumulated(a, f)
  /\ clock = 0
  /\ mmu = NewMMU
  /\ error = NoError
  /\ ret = Undefined
  /\ last = NoOperation
  /\ earlier = NoOperation
  /\ pushes = <<>>
  /\ steps = 0

StepAlu ==
  /\ steps < MaxAluSteps
  /\ Step(AluImmediate \cup AluOnA, AluBytes)

NextAlu == StepAlu

SpecAlu == InitAlu /\ [][NextAlu]_vars

(***************************************************************************)
(* SpecWord: ADD HL,rr, INC rr and DEC rr.  The CPU starts from a state in *)
(* which earlier loads have left word h in HL, word w in BC, DE and SP,    *)
(* and the flags in F.                                                     *)
(***************************************************************************)
MaxWordSteps == 1

\* 0x0000 0x0001 0x00f0 0x00ff 0x0100 0x0800 0x0f00 0x0ffe 0x0fff 0x1000
\* 0x1234 0x5555 0x7000 0x7fff 0x8000 0x8800 0x8fff 0xaaaa 0xabcd 0xefff
\* 0xf000 0xf001 0xff00 0xffff
WordSamples ==
  {0, 1, 240, 255, 256, 2048, 3840, 4094, 4095, 4096, 4660, 21845, 28672,
   32767, 32768, 34816, 36863, 43690, 43981, 61439, 61440, 61441, 65280,
   65535}

\* F before the instruction: every flag clear, every flag set
WordFlags == {0, 240}

\* ADD HL,rr; INC rr; DEC rr for BC, DE, HL, SP
WordOpcodes == {9, 25, 41, 57, 3, 19, 35, 51, 11, 27, 43, 59}

\* The register file after LD HL,h; LD BC,w; LD DE,w; LD SP,w and F = f.
WordsLoaded(h, w, f) ==
  RegWrite(RegWrite(RegWrite(RegWrite(RegWrite(NewRegisters, "f", f),
                                      "sp", w), "de", w), "bc", w), "hl", h)

InitWord ==
  /\ \E h \in WordSamples, w \in WordSamples, f \in WordFlags :
       registers = WordsLoaded(h, w, f)
  /\ clock = 0
  /\ mmu = NewMMU
  /\ error = NoError
  /\ ret = Undefined
  /\ last = NoOperation
  /\ earlier = NoOperation
  /\ pushes = <<>>
  /\ steps = 0

StepWord ==
  /\ steps < MaxWordSteps
  /\ Step(WordOpcodes, Operands)

NextWord == StepWord

SpecWord == InitWord /\ [][NextWord]_vars

(***************************************************************************)
(* SpecFlags: the rotations of A, DAA, CPL, SCF and CCF.  The CPU starts   *)
(* from a state in which earlier instructions have left any byte in A and  *)
(* any combination of the four flags in F.                                 *)
(***************************************************************************)
MaxFlagSteps == 1

\* F before the instruction: the sixteen combinations of Z, N, H, C
FlagCombinations == {16 * k : k \in 0 .. 15}

\* RLCA, RRCA, RLA, RRA, DAA, CPL, SCF, CCF
FlagOpcodes == {7, 15, 23, 31, 39, 47, 55, 63}

InitFlags ==
  /\ \E a \in AluBytes, f \in FlagCombinations : registers = Accumulated(a, f)
  /\ clock = 0
  /\ mmu = NewMMU
  /\ error = NoError
  /\ ret = Undefined
  /\ last = NoOperation
  /\ earlier = NoOperation
  /\ pushes = <<>>
  /\ steps = 0

StepFlags ==
  /\ steps < MaxFlagSteps
  /\ Step(FlagOpcodes, Operands)

NextFlags == StepFlags

SpecFlags == InitFlags /\ [][NextFlags]_vars

(***************************************************************************)
(* SpecJump: JR n at several addresses of the BIOS image, with every       *)
(* operand byte.  The instruction at 0xFF has its operand in the ROM.      *)
(***************************************************************************)
MaxJumpSteps == 1

\* Addresses of the JR n: 0x00, 0x01, 0x7E, 0x80, 0xFD, 0xFE, 0xFF
JumpOrigins == {0, 1, 126, 128, 253, 254, 255}

\* JR n
JumpOpcodes == {24}

\* The register file after a jump to p with F = f.
JumpedTo(p, f) == RegWrite(RegWrite(NewRegisters, "f", f), "pc", p)

InitJump ==
  /\ \E p \in JumpOrigins, f \in AluFlags : registers = JumpedTo(p, f)
  /\ clock = 0
  /\ mmu = NewMMU
  /\ error = NoError
  /\ ret = Undefined
  /\ last = NoOperation
  /\ earlier = NoOperation
  /\ pushes = <<>>
  /\ steps = 0

StepJump ==
  /\ steps < MaxJumpSteps
  /\ Step(JumpOpcodes, AluBytes)

NextJump == StepJump

SpecJump == InitJump /\ [][NextJump]_vars

(***************************************************************************)
(* SpecBranch: the conditional jumps, calls and returns, RST t, RET and    *)
(* NOP, run for MaxBranchSteps instructions from several addresses of the  *)
(* BIOS image, with Z and C clear or set and the stack at the top of the   *)
(* address space or in working RAM.                                        *)
(***************************************************************************)
MaxBranchSteps == 2

\* Addresses of the first instruction: 0x00, 0xFE
BranchOrigins == {0, 254}

\* F before the first instruction: Z and C clear or set
BranchFlags == {0, 16, 128, 144}

\* SP before the first instruction: 0x0000, 0xC002
BranchStacks == {0, 49154}

\* NOP; JR cc,n; RET cc; JP cc,nn; CALL cc,nn; RET; RST t
BranchOpcodes ==
  {0, 201} \cup {32 + 8 * cc : cc \in 0 .. 3}
    \cup {192 + 8 * cc + k : cc \in 0 .. 3, k \in {0, 2, 4}}
    \cup {199 + 8 * t : t \in 0 .. 7}

\* Operand bytes of the image: 0x00 and 0xc9 (which is also RET).
BranchOperands == {0, 201}

InitBranch ==
  /\ \E p \in BranchOrigins, f \in BranchFlags, s \in BranchStacks :
       registers = RegWrite(JumpedTo(p, f), "sp", s)
  /\ clock = 0
  /\ mmu = NewMMU
  /\ error = NoError
  /\ ret = Undefined
  /\ last = NoOperation
  /\ earlier = NoOperation
  /\ pushes = <<>>
  /\ steps = 0

StepBranch ==
  /\ steps < MaxBranchSteps
  /\ Step(BranchOpcodes, BranchOperands)

NextBranch == StepBranch

SpecBranch == InitBranch /\ [][NextBranch]_vars

(***************************************************************************)
(* SpecMemory: the instructions with a (HL) operand.  The CPU starts from  *)
(* a state in which earlier instructions have loaded A, F and HL and have  *)
(* stored any byte in RAM at the address in HL.                            *)
(***************************************************************************)
MaxMemorySteps == 1

\* HL: the first byte of working RAM, 0xC000, and of zero-page RAM, 0xFF80
MemoryAddresses == {49152, 65408}

\* A before the instruction: 0x00, 0x55, 0xFF
MemoryAccumulators == {0, 85, 255}

\* INC (HL), DEC (HL), AND (HL), XOR (HL), OR (HL), CP (HL)
MemoryOpcodes == {52, 53, 166, 174, 182, 190}

\* The memory after mmu.writeByte(a, v) on a new MMU.
Stored(a, v) ==
  writeByte([registers |-> NewRegisters, clock |-> 0, mmu |-> NewMMU,
             error |-> NoError, ret |-> Undefined, reads |-> {}], a, v).mmu

InitMemory ==
  /\ \E a \in MemoryAddresses, v \in AluBytes, acc \in MemoryAccumulators,
        f \in AluFlags :
       /\ registers = RegWrite(Accumulated(acc, f), "hl", a)
       /\ mmu = Stored(a, v)
  /\ clock = 0
  /\ error = NoError
  /\ ret = Undefined
  /\ last = NoOperation
  /\ earlier = NoOperation
  /\ pushes = <<>>
  /\ steps = 0

StepMemory ==
  /\ steps < MaxMemorySteps
  /\ Step(MemoryOpcodes, Operands)

NextMemory == StepMemory

SpecMemory == InitMemory /\ [][NextMemory]_vars

(***************************************************************************)
(* SpecDecimal: the BIOS images that begin with ADD A,n or SUB n on packed *)
(* BCD bytes and go on with DAA.  A holds any packed BCD byte before.      *)
(***************************************************************************)
MaxDecimalSteps == 2

\* The packed BCD bytes: both nibbles at most 9
BCDBytes == {16 * high + low : high \in 0 .. 9, low \in 0 .. 9}

\* ADD A,n and SUB n
DecimalArithmetic == {198, 214}

\* DAA
DecimalAdjustment == {39}

InitDecimal ==
  /\ \E a \in BCDBytes, f \in AluFlags : registers = Accumulated(a, f)
  /\ clock = 0
  /\ mmu = NewMMU
  /\ error = NoError
  /\ ret = Undefined
  /\ last = NoOperation
  /\ earlier = NoOperation
  /\ pushes = <<>>
  /\ steps = 0

\* The first instruction of the image.
StepArithmetic ==
  /\ steps < MaxDecimalSteps
  /\ last.op # "step"
  /\ Step(DecimalArithmetic, BCDBytes)

\* The instructions that follow it.
StepAdjust ==
  /\ steps < MaxDecimalSteps
  /\ last.op = "step"
  /\ Step(DecimalAdjustment, BCDBytes)

NextDecimal == StepArithmetic \/ StepAdjust

SpecDecimal == InitDecimal /\ [][NextDecimal]_vars

(***************************************************************************)
(* SpecChain: 16-bit arithmetic in two bytes.  The BIOS image holds        *)
(*   ADD A,n or SUB n;  LD C,A;  LD A,B;  ADC A,n or SBC A,n               *)
(* and the CPU starts with the low byte of x in A and in D and its high    *)
(* byte in B.                                                              *)
(***************************************************************************)
MaxChainSteps == 4

\* The bytes of x and of y
ChainBytes == {0, 1, 15, 16, 17, 127, 128, 129, 153, 240, 254, 255}

\* The opcodes the image may hold at address pc.
ChainProgram(pc) ==
  IF pc = 0 THEN {198, 214}
  ELSE IF pc = 2 THEN {79}
  ELSE IF pc = 3 THEN {120}
  ELSE IF pc = 4 THEN {206, 222}
  ELSE {0}

\* The register file after LD A,low; LD D,A; LD B,high and F = f.
ChainLoaded(low, high, f) ==
  RegWrite(RegWrite(Accumulated(low, f), "d", low), "b", high)

InitChain ==
  /\ \E low \in ChainBytes, high \in ChainBytes, f \in AluFlags :
       registers = ChainLoaded(low, high, f)
  /\ clock = 0
  /\ mmu = NewMMU
  /\ error = NoError
  /\ ret = Undefined
  /\ last = NoOperation
  /\ earlier = NoOperation
  /\ pushes = <<>>
  /\ steps = 0

StepChain ==
  /\ steps < MaxChainSteps
  /\ Step(ChainProgram(RegValue(registers, "pc")), ChainBytes)

NextChain == StepChain

SpecChain == InitChain /\ [][NextChain]_vars

(***************************************************************************)
(* SpecFrame: a host writes and reads bytes at the first and last address  *)
(* of every region of the memory map, and at 0x10000, the address          *)
(* writeWord(0xFFFF, v) passes to writeByte.                               *)
(***************************************************************************)
MaxFrameSteps == 2

FrameAddresses ==
  {0, 255, 256, 4096, 16383, 16384, 32767, 32768, 40960, 49151, 49152, 56831,
   56832, 57343, 57344, 65023, 65184, 65408, 65535, 65536}

FrameValues == {85, 511}

ReadFrame ==
  /\ steps < MaxFrameSteps
  /\ \E a \in FrameAddresses :
       Perform(LAMBDA m : readByte(m, a), Machine, Operands,
               "readByte", "", a, Undefined)

WriteFrame ==
  /\ steps < MaxFrameSteps
  /\ \E a \in FrameAddresses, v \in FrameValues :
       Perform(LAMBDA m : writeByte(m, a, v), Machine, Operands,
               "writeByte", "", a, v)

NextFrame == ReadFrame \/ WriteFrame

SpecFrame == Init /\ [][NextFrame]_vars

(***************************************************************************)
(* Claims.                                                                 *)
(***************************************************************************)
\* The last operation was a successful step of the given opcode.
Stepped(opcode) ==
  last.op = "step" /\ last.error = NoError /\ last.opcode = opcode

\* Register r holds `now`, and held `was` before the last operation.
Was(r) == RegValue(last.before.registers, r)

Now(r) == RegValue(registers, r)

\* C1: in every reachable state the low four bits of register F are zero
\* (F & 0x0F = 0), also after POP AF with arbitrary bytes on the stack.
C1_FLowNibbleZero == registers.f % 16 = 0

\* C2: reading a pair returns (high << 8) | low of its two 8-bit registers;
\* a write to an 8-bit half is visible on the next read of the pair; and
\* writing v in 0..0xFFFF to BC, DE or HL and then reading the pair returns v.
C2_PairReadsItsHalves ==
  (last.op = "get" /\ last.register \in PairNames) =>
    LET p == last.register
    IN  /\ ret = registers[PairHigh[p]] * 256 + registers[PairLow[p]]
        /\ (earlier.op = "set" /\ earlier.register = PairHigh[p])
             => ret \div 256 = earlier.value % 256
        /\ (earlier.op = "set" /\ earlier.register = PairLow[p])
             => ret % 256 = earlier.value % 256
        /\ (earlier.op = "set" /\ earlier.register = p /\ p # "af"
            /\ earlier.value \in 0 .. 65535)
             => ret = earlier.value

\* C2 witness: B was written with 0xFF and the next read of BC returned 0xFF00.
C2_HalfWriteSeen ==
  /\ last.op = "get" /\ last.register = "bc"
  /\ earlier.op = "set" /\ earlier.register = "b" /\ earlier.value = 255
  /\ ret = 65280

\* C3: every 8-bit register holds a value in 0..0xFF and every 16-bit
\* register (PC, SP and the pairs) a value in 0..0xFFFF, and increments,
\* decrements, additions and jumps that overflow or underflow wrap modulo
\* 2^8 or 2^16.
C3_RegistersWrap ==
  /\ \A r \in Reg8Names : registers[r] \in 0 .. 255 /\ Now(r) \in 0 .. 255
  /\ \A r \in Reg16Names \cup PairNames :
       registers[r] \in 0 .. 65535 /\ Now(r) \in 0 .. 65535
  /\ \A k \in {0, 1, 2, 3, 4, 5, 7} :
       LET r == Reg8ByCode[k + 1]
       IN  /\ Stepped(8 * k + 4) => Now(r) = (Was(r) + 1) % 256
           /\ Stepped(8 * k + 5) => Now(r) = (Was(r) - 1) % 256
           /\ Stepped(128 + k) => Now("a") = (Was("a") + Was(r)) % 256
  /\ \A k \in 0 .. 3 :
       LET rr == Reg16ByCode[k + 1]
       IN  /\ Stepped(16 * k + 3) => Now(rr) = (Was(rr) + 1) % 65536
           /\ Stepped(16 * k + 11) => Now(rr) = (Was(rr) - 1) % 65536
           /\ Stepped(16 * k + 9) => Now("hl") = (Was("hl") + Was(rr)) % 65536
  /\ (Stepped(24) /\ Was("pc") + 1 < BIOSSize) =>
       LET n == Cell(last.before.mmu.BIOS, Was("pc") + 1)
       IN  Now("pc") = (Was("pc") + 2 + (IF n > 127 THEN n - 256 ELSE n)) % 65536

\* C3 witness: INC B on B = 0xFF left B = 0x00.
C3_IncrementWrapped == Stepped(4) /\ Was("b") = 255 /\ Now("b") = 0

\* Address sets of the memory map.
ExternalRAMRange == 40960 .. 49151

WorkingRAMRange == 49152 .. 57343

MirrorRange == 57344 .. 65023

ZeroPageRange == 65408 .. 65534

WritableRAM ==
  ExternalRAMRange \cup WorkingRAMRange \cup MirrorRange \cup ZeroPageRange

\* The byte the backing array holds for an address of writable RAM.
Backing(memory, a) ==
  IF a \in ExternalRAMRange
    THEN ArrayGet(memory.externalRAM, ExternalRAMSize, a - 40960)
  ELSE IF a \in WorkingRAMRange
    THEN ArrayGet(memory.workingRAM, WorkingRAMSize, a - 49152)
  ELSE IF a \in MirrorRange
    THEN ArrayGet(memory.workingRAM, WorkingRAMSize, a - 57344)
  ELSE ArrayGet(memory.zeroPageRAM, ZeroPageRAMSize, a - 65408)

Peek(memory, a) == readByte([Machine EXCEPT !.mmu = memory], a).ret

\* The little-endian word at address a of a memory.
PeekWord(memory, a) ==
  Peek(memory, a) + 256 * Peek(memory, (a + 1) % 65536)

StepErrors ==
  {"Instruction not implemented.", "VRAM not implemented.",
   "GPU OAM not implemented.", "I/O Control not implemented.",
   "Unexpected non-number value from read."}

FailedStep == last.op = "step" /\ error \in StepErrors

\* Nothing but PC changed in the last operation, and PC advanced by n.
OnlyPCAdvanced(n) ==
  /\ Now("pc") = (Was("pc") + n) % 65536
  /\ \A r \in RegNames \ {"pc"} : Now(r) = Was(r)
  /\ mmu = last.before.mmu
  /\ clock = last.before.clock

FetchFailed == Failed(fetch([Machine EXCEPT !.registers = last.before.registers,
                                            !.clock = last.before.clock,
                                            !.mmu = last.before.mmu]))

Reserved == {211, 219, 221, 227, 228, 235, 236, 237, 244, 252, 253}

Decoded == last.op = "decode" /\ error = NoError

\* C11: decoding 0xCB followed by any second byte yields an entry of the CB
\* table, a defined operation or an explicit Unimplemented marker, never an
\* absent entry.
C11_CBEntryPresent == (Decoded /\ last.opcode = 203) => ret # Undefined

\* The entry the CB table holds for the byte at address a of the memory the
\* last operation started from.
CBEntryAt(a) ==
  CBLookup(readByte([Machine EXCEPT !.mmu = last.before.mmu], a)).ret

BIOSRange == 0 .. 255

\* The last operation was MMU call `name` on address a and raised no error.
Called(name, a) == last.op = name /\ last.address = a /\ error = NoError

\* C13: inBIOS is true at first; once PC is 0x0100 or the unmap register
\* 0xFF50 has been written inBIOS is false, a read of 0x0000-0x00FF then
\* returns the byte of the cartridge ROM, and inBIOS once false stays false.
C13_BIOSUnmapsForGood ==
  /\ steps = 0 => mmu.inBIOS
  /\ Now("pc") = 256 => ~mmu.inBIOS
  /\ (last.op = "writeByte" /\ last.address = 65360) => ~mmu.inBIOS
  /\ ~last.before.mmu.inBIOS => ~mmu.inBIOS
  /\ \A a \in BIOSRange :
       (~last.before.mmu.inBIOS /\ Called("readByte", a))
         => ret = ArrayGet(mmu.ROM, ROMSize, a)

\* C14: the clock never decreases: after every successful step it is greater
\* than or equal to what it was before the step, however long the run.
C14_ClockNeverDecreases ==
  (last.op = "step" /\ error = NoError) => clock >= last.before.clock

\* C15: reset() from any state sets every register (A .. L, PC, SP, hence
\* AF .. HL) and the clock to 0 without failing, and a second reset()
\* leaves the state the first one left.
C15_ResetZeroesAndIsIdempotent ==
  /\ last.op = "reset" =>
       /\ error = NoError
       /\ \A r \in RegNames : Now(r) = 0
       /\ clock = 0
  /\ (last.op = "reset" /\ earlier.op = "reset") =>
       /\ registers = last.before.registers
       /\ clock = last.before.clock
       /\ mmu = last.before.mmu

\* C15 witness: reset() zeroed A, F, the clock and PC after INC A and a
\* write of SP, and was applied a second time.
C15_ResetTwiceAfterWork ==
  /\ last.op = "reset" /\ earlier.op = "reset"
  /\ RegValue(earlier.before.registers, "a") = 1
  /\ RegValue(earlier.before.registers, "sp") = 42435
  /\ earlier.before.clock = 1
  /\ Now("a") = 0 /\ Now("sp") = 0 /\ Now("pc") = 0 /\ clock = 0

\* The last two operations were writeByte(a, v), which raised no error,
\* and then readByte(a), for an address a from lo to hi.
WroteThenRead(lo, hi) ==
  /\ earlier.op = "writeByte" /\ earlier.error = NoError
  /\ last.op = "readByte" /\ last.address = earlier.address
  /\ lo <= last.address /\ last.address <= hi

\* C16: writes into the cartridge ROM range are accepted: for addr in
\* 0x0100-0x7FFF (and 0x0000-0x00FF once the BIOS is unmapped),
\* writeByte(addr, v) followed by readByte(addr) returns v & 0xFF.
C16_ROMWriteReadBack ==
  (WroteThenRead(256, 32767)
     \/ (WroteThenRead(0, 255) /\ ~last.before.mmu.inBIOS))
    => error = NoError /\ ret = earlier.value % 256

\* C17: readByte(addr) for addr in ROM bank 1 (0x4000-0x7FFF) raises no
\* error and returns a byte, the one the ROM array holds at index addr.
C17_Bank1Readable ==
  (last.op = "readByte" /\ 16384 <= last.address /\ last.address <= 32767)
    => /\ error = NoError
       /\ 0 <= ret /\ ret <= 255
       /\ Known(mmu.ROM, last.address) => ret = Cell(mmu.ROM, last.address)

\* The last operation was a readByte or writeByte of an address from lo to hi.
AccessedByte(lo, hi) ==
  /\ last.op \in {"readByte", "writeByte"}
  /\ lo <= last.address /\ last.address <= hi

\* VRAM 0x8000-0x9FFF, OAM 0xFE00-0xFE9F, I/O 0xFF00-0xFF7F
AccessedUnbacked ==
  \/ AccessedByte(32768, 40959)
  \/ AccessedByte(65024, 65183)
  \/ AccessedByte(65280, 65407)

\* C18: a readByte or writeByte on VRAM, OAM or I/O raises an error and
\* leaves the MMU's buffers and inBIOS unchanged; an access to the unused
\* range 0xFEA0-0xFEFF raises none, a read returning 0 and a write changing
\* nothing.
C18_UnbackedRegionsFail ==
  /\ AccessedUnbacked => error # NoError /\ mmu = last.before.mmu
  /\ AccessedByte(65184, 65279) =>
       /\ error = NoError
       /\ mmu = last.before.mmu
       /\ last.op = "readByte" => ret = 0

\* C18 witness: a read of the unused range returned 0 and then a write to
\* VRAM failed, the ROM holding a byte written before.
C18_VRAMWriteFailedAfterUnusedRead ==
  /\ earlier.op = "readByte" /\ earlier.address = 65184 /\ earlier.ret = 0
  /\ earlier.error = NoError
  /\ last.op = "writeByte" /\ last.address = 32768
  /\ error = "VRAM not implemented."

\* C19: after HALT (0x76) executes the CPU is halted: the step that runs it
\* raises no error, and the step that follows dispatches no instruction,
\* leaving registers, flags and memory unchanged and advancing the clock by
\* one M-cycle.
C19_HaltSuspends ==
  /\ (last.op = "step" /\ last.opcode = 118) => error = NoError
  /\ (earlier.op = "step" /\ earlier.opcode = 118 /\ last.op = "step") =>
       /\ error = NoError
       /\ \A r \in RegNames : Now(r) = Was(r)
       /\ mmu = last.before.mmu
       /\ clock = (last.before.clock + 1) % 256

\* The flags before the last operation.
WasFlag(bit) == BitAnd(Was("f"), bit) # 0

NowFlag(bit) == BitAnd(Now("f"), bit) # 0

\* The last step ran INC r (delta 1) or DEC r (delta -1) as the claim has it.
IncDecAsClaimed(r, delta) ==
  /\ Now(r) = (Was(r) + delta) % 256
  /\ NowFlag(HalfCarryBit) =
       (IF delta = 1 THEN (Was(r) % 16) + 1 > 15 ELSE Was(r) % 16 = 0)
  /\ NowFlag(SubtractBit) = (delta # 1)
  /\ NowFlag(ZeroBit) = (Now(r) = 0)
  /\ NowFlag(CarryBit) = WasFlag(CarryBit)
  /\ ret = 1
  /\ clock = (last.before.clock + 1) % 256

\* C20: INC r stores (v + 1) & 0xFF with H = ((v & 0xF) + 1 > 0xF), N = 0,
\* Z = (result = 0); DEC r stores (v - 1) & 0xFF with H = ((v & 0xF) = 0),
\* N = 1, Z = (result = 0); both leave C unchanged and take 1 M-cycle.
C20_IncDecRegister ==
  \A k \in {1, 2, 3, 4, 5, 6, 8} :
    /\ Stepped(4 + 8 * (k - 1)) => IncDecAsClaimed(Reg8ByCode[k], 1)
    /\ Stepped(5 + 8 * (k - 1)) => IncDecAsClaimed(Reg8ByCode[k], 0 - 1)

\* C20 witness: INC E took E from 0x0F to 0x10 with C set before and after,
\* H set and Z clear.
C20_HalfCarryOutOfLowNibble ==
  /\ Stepped(28) /\ Was("e") = 15 /\ Now("e") = 16
  /\ WasFlag(CarryBit) /\ NowFlag(CarryBit)
  /\ NowFlag(HalfCarryBit) /\ ~NowFlag(ZeroBit)

\* The operand n of the last step's accumulator operation: A itself for the
\* register form, else the byte that follows the opcode.
AluOperand ==
  IF last.opcode \in AluOnA THEN Was("a")
  ELSE Peek(last.before.mmu, (Was("pc") + 1) % 65536)

\* The last step ran the accumulator operation of row k: 0 ADD, 1 ADC,
\* 2 SUB, 3 SBC, 4 AND, 5 XOR, 6 OR, 7 CP.
AluStepped(k) ==
  /\ last.op = "step" /\ error = NoError
  /\ last.opcode \in AluImmediate \cup AluOnA
  /\ (last.opcode % 64) \div 8 = k

WasCarry == IF WasFlag(CarryBit) THEN 1 ELSE 0

\* A and the flags are those of the sum of A, n and carry-in c.
AddedAsClaimed(n, c) ==
  /\ Now("a") = (Was("a") + n + c) % 256
  /\ NowFlag(CarryBit) = (Was("a") + n + c > 255)
  /\ NowFlag(HalfCarryBit) = ((Was("a") % 16) + (n % 16) + c > 15)
  /\ NowFlag(ZeroBit) = (Now("a") = 0)
  /\ ~NowFlag(SubtractBit)

\* C21: ADD A,n stores (A + n) & 0xFF with C = (A + n > 0xFF),
\* H = ((A & 0xF) + (n & 0xF) > 0xF), Z = (result = 0), N = 0; ADC A,n does
\* the same with A + n + c, the carry-in counted in the half-carry sum too.
C21_AddAndAddWithCarry ==
  /\ AluStepped(0) => AddedAsClaimed(AluOperand, 0)
  /\ AluStepped(1) => AddedAsClaimed(AluOperand, WasCarry)

\* C21 witness: ADC A,0x00 with A = 0x0F and the carry set gave 0x10, the
\* half carry coming from the carry-in alone.
C21_CarryInMakesHalfCarry ==
  /\ Stepped(206) /\ Was("a") = 15 /\ AluOperand = 0 /\ WasFlag(CarryBit)
  /\ Now("a") = 16 /\ NowFlag(HalfCarryBit) /\ ~NowFlag(CarryBit)

\* The flags are those of A minus n minus borrow-in c.
FlagsOfDifference(n, c) ==
  /\ NowFlag(CarryBit) = (Was("a") < n + c)
  /\ NowFlag(HalfCarryBit) = (Was("a") % 16 < (n % 16) + c)
  /\ NowFlag(ZeroBit) = ((Was("a") - n - c) % 256 = 0)
  /\ NowFlag(SubtractBit)

\* C22: SUB n stores (A - n) & 0xFF with C = (A < n),
\* H = ((A & 0xF) < (n & 0xF)), Z = (result = 0), N = 1; SBC A,n does the
\* same with n + c subtracted; CP n sets the flags of SUB n and leaves A.
C22_SubtractAndCompare ==
  /\ AluStepped(2) =>
       Now("a") = (Was("a") - AluOperand) % 256 /\ FlagsOfDifference(AluOperand, 0)
  /\ AluStepped(3) =>
       /\ Now("a") = (Was("a") - AluOperand - WasCarry) % 256
       /\ FlagsOfDifference(AluOperand, WasCarry)
  /\ AluStepped(7) =>
       Now("a") = Was("a") /\ FlagsOfDifference(AluOperand, 0)

\* C22 witness: CP 0x42 with A = 0x42 set Z and N, cleared H and C, and
\* left A.
C22_CompareEqual ==
  /\ Stepped(254) /\ Was("a") = 66 /\ AluOperand = 66 /\ Was("f") = 0
  /\ Now("a") = 66 /\ Now("f") = 192

\* Bit i of byte x, and the byte whose bit i is table[bit i of x][bit i of y].
BitOf(x, i) == (x \div (2 ^ i)) % 2

BytePerBit(x, y, table) ==
  LET T(i) == table[BitOf(x, i) + 1][BitOf(y, i) + 1] * (2 ^ i)
  IN  T(0) + T(1) + T(2) + T(3) + T(4) + T(5) + T(6) + T(7)

\* A is result, H is half, Z = (result = 0), N = C = 0.
LogicAsClaimed(result, half) ==
  /\ Now("a") = result
  /\ NowFlag(ZeroBit) = (result = 0)
  /\ ~NowFlag(SubtractBit)
  /\ NowFlag(HalfCarryBit) = half
  /\ ~NowFlag(CarryBit)

\* C23: AND n stores A & n with Z = (result = 0), N = 0, H = 1, C = 0; XOR n
\* and OR n store A ^ n and A | n with Z = (result = 0), N = H = C = 0.
C23_LogicalOperations ==
  /\ AluStepped(4) =>
       LogicAsClaimed(BytePerBit(Was("a"), AluOperand, <<<<0, 0>>, <<0, 1>>>>), TRUE)
  /\ AluStepped(5) =>
       LogicAsClaimed(BytePerBit(Was("a"), AluOperand, <<<<0, 1>>, <<1, 0>>>>), FALSE)
  /\ AluStepped(6) =>
       LogicAsClaimed(BytePerBit(Was("a"), AluOperand, <<<<0, 1>>, <<1, 1>>>>), FALSE)

\* C23 witness: XOR A with A = 0x5A and every flag set left A = 0x00 and
\* F = 0x80.
C23_XorAClearsA ==
  /\ Stepped(175) /\ Was("a") = 90 /\ Was("f") = 240
  /\ Now("a") = 0 /\ Now("f") = 128

\* The 16-bit register the last step's opcode names in bits 4 and 5.
WordRegister == Reg16ByCode[((last.opcode \div 16) % 4) + 1]

\* The last step ran the opcode of the given column of rows 0x00 .. 0x30.
WordStepped(column) ==
  /\ last.op = "step" /\ error = NoError
  /\ last.opcode < 64 /\ last.opcode % 16 = column

\* C24: ADD HL,rr stores (HL + rr) & 0xFFFF with C = (HL + rr > 0xFFFF),
\* H = ((HL & 0xFFF) + (rr & 0xFFF) > 0xFFF), N = 0 and Z unchanged, in
\* 2 M-cycles.
C24_AddToHL ==
  WordStepped(9) =>
    /\ Now("hl") = (Was("hl") + Was(WordRegister)) % 65536
    /\ NowFlag(CarryBit) = (Was("hl") + Was(WordRegister) > 65535)
    /\ NowFlag(HalfCarryBit) =
         ((Was("hl") % 4096) + (Was(WordRegister) % 4096) > 4095)
    /\ ~NowFlag(SubtractBit)
    /\ NowFlag(ZeroBit) = WasFlag(ZeroBit)
    /\ ret = 2
    /\ clock = (last.before.clock + 2) % 256

\* C24 witness: ADD HL,HL with HL = 0x8000 gave HL = 0, C = 1, H = 0, and
\* left Z set.
C24_DoubledTopBit ==
  /\ Stepped(41) /\ Was("hl") = 32768 /\ Was("f") = 240
  /\ Now("hl") = 0 /\ NowFlag(CarryBit) /\ ~NowFlag(HalfCarryBit)
  /\ NowFlag(ZeroBit)

\* The 8-bit registers that are no half of 16-bit register rr.
OutsideOf(rr) ==
  IF rr \in PairNames THEN Reg8Names \ {PairHigh[rr], PairLow[rr]}
  ELSE Reg8Names

\* The last step moved rr by delta modulo 0x10000 and left F, the other
\* registers and SP (when rr is not SP) as they were, in 2 M-cycles.
WordMovedBy(rr, delta) ==
  /\ Now(rr) = (Was(rr) + delta) % 65536
  /\ Now("f") = Was("f")
  /\ \A r \in OutsideOf(rr) : Now(r) = Was(r)
  /\ rr # "sp" => Now("sp") = Was("sp")
  /\ ret = 2
  /\ clock = (last.before.clock + 2) % 256

\* C25: INC rr and DEC rr on BC, DE, HL and SP change the 16-bit value by
\* +1 / -1 modulo 0x10000 and leave the four flags and every other
\* register unchanged, in 2 M-cycles.
C25_IncDecWord ==
  /\ WordStepped(3) => WordMovedBy(WordRegister, 1)
  /\ WordStepped(11) => WordMovedBy(WordRegister, 0 - 1)

\* C25 witness: DEC BC took BC from 0x0000 to 0xFFFF with every flag set
\* before and after.
C25_DecrementWrapped ==
  /\ Stepped(11) /\ Was("bc") = 0 /\ Now("bc") = 65535
  /\ Was("f") = 240 /\ Now("f") = 240

\* A is `rotated`, C is the ejected bit, Z = N = H = 0.
RotatedAsClaimed(rotated, ejected) ==
  /\ Now("a") = rotated
  /\ NowFlag(CarryBit) = (ejected = 1)
  /\ ~NowFlag(ZeroBit) /\ ~NowFlag(SubtractBit) /\ ~NowFlag(HalfCarryBit)

\* C26: RLCA, RRCA, RLA and RRA set Z = N = H = 0 and C = the bit ejected
\* from A (bit 7 for left, bit 0 for right); RLCA and RRCA rotate the
\* ejected bit into the opposite end of A, RLA and RRA the old carry.
C26_RotateAccumulator ==
  /\ Stepped(7) =>
       RotatedAsClaimed(((Was("a") * 2) % 256) + (Was("a") \div 128), Was("a") \div 128)
  /\ Stepped(15) =>
       RotatedAsClaimed((Was("a") \div 2) + 128 * (Was("a") % 2), Was("a") % 2)
  /\ Stepped(23) =>
       RotatedAsClaimed(((Was("a") * 2) % 256) + WasCarry, Was("a") \div 128)
  /\ Stepped(31) =>
       RotatedAsClaimed((Was("a") \div 2) + 128 * WasCarry, Was("a") % 2)

\* C26 witness: RLCA with A = 0x80 and the carry clear gave A = 0x01 and
\* C = 1, Z, N and H cleared from set.
C26_RotatedTopBitAround ==
  /\ Stepped(7) /\ Was("a") = 128 /\ Was("f") = 224
  /\ Now("a") = 1 /\ Now("f") = 16

\* The correction of the reference algorithm of DAA, and its carry.
DAACorrection ==
  IF WasFlag(SubtractBit)
    THEN (IF WasFlag(HalfCarryBit) THEN 6 ELSE 0)
         + (IF WasFlag(CarryBit) THEN 96 ELSE 0)
    ELSE (IF WasFlag(HalfCarryBit) \/ (Was("a") % 16) > 9 THEN 6 ELSE 0)
         + (IF WasFlag(CarryBit) \/ Was("a") > 153 THEN 96 ELSE 0)

DAACarry ==
  WasFlag(CarryBit) \/ (~WasFlag(SubtractBit) /\ Was("a") > 153)

\* C27: DAA gives the A, Z, H and C of the reference algorithm: if N = 0
\* add 0x06 when H or (A & 0x0F) > 9 and 0x60 (setting C) when C or
\* A > 0x99; if N = 1 subtract 0x06 when H and 0x60 when C; then
\* Z = (A = 0), H = 0, N unchanged.
C27_DecimalAdjust ==
  Stepped(39) =>
    /\ Now("a") = (IF WasFlag(SubtractBit) THEN Was("a") - DAACorrection
                   ELSE Was("a") + DAACorrection) % 256
    /\ NowFlag(ZeroBit) = (Now("a") = 0)
    /\ ~NowFlag(HalfCarryBit)
    /\ NowFlag(CarryBit) = DAACarry
    /\ NowFlag(SubtractBit) = WasFlag(SubtractBit)

\* C27 witness: DAA after an addition that left A = 0x9A gave A = 0x00
\* with Z and C set.
C27_AdjustedToZero ==
  /\ Stepped(39) /\ Was("a") = 154 /\ Was("f") = 0
  /\ Now("a") = 0 /\ Now("f") = 144

\* C28: SCF sets C = 1 and N = H = 0 and leaves Z and every register
\* unchanged, whatever the flags were before.
C28_SetCarryFlag ==
  Stepped(55) =>
    /\ NowFlag(CarryBit) /\ ~NowFlag(SubtractBit) /\ ~NowFlag(HalfCarryBit)
    /\ NowFlag(ZeroBit) = WasFlag(ZeroBit)
    /\ \A r \in RegNames \ {"f", "af", "pc"} : Now(r) = Was(r)

\* C29: CPL stores A ^ 0xFF in A and sets N = 1 and H = 1, leaving Z and C
\* unchanged.
C29_Complement ==
  Stepped(47) =>
    /\ Now("a") = 255 - Was("a")
    /\ NowFlag(SubtractBit) /\ NowFlag(HalfCarryBit)
    /\ NowFlag(ZeroBit) = WasFlag(ZeroBit)
    /\ NowFlag(CarryBit) = WasFlag(CarryBit)

\* The operand byte of the instruction the last step ran.
OperandByte == Peek(last.before.mmu, (Was("pc") + 1) % 65536)

\* C30: JR n at address p sets PC = (p + 2 + s(n)) mod 0x10000, where
\* s(n) = n for n <= 0x7F and n - 256 otherwise, changes no flag, and takes
\* 3 M-cycles.
C30_JumpRelative ==
  Stepped(24) =>
    /\ Now("pc") = (Was("pc") + 2
                    + (IF OperandByte <= 127 THEN OperandByte
                       ELSE OperandByte - 256)) % 65536
    /\ Now("f") = Was("f")
    /\ ret = 3

\* C30 witness: JR 0x80 at address 0 jumped back 128 bytes from address 2,
\* around the bottom of the address space, to 0xFF82.
C30_JumpedBackAroundZero ==
  /\ Stepped(24) /\ Was("pc") = 0 /\ OperandByte = 128 /\ Was("f") = 240
  /\ Now("pc") = 65410 /\ Now("f") = 240 /\ ret = 3

\* The condition cc (NZ, Z, NC, C) on the flags before the last step.
ConditionWas(cc) ==
  IF cc = 0 THEN ~WasFlag(ZeroBit)
  ELSE IF cc = 1 THEN WasFlag(ZeroBit)
  ELSE IF cc = 2 THEN ~WasFlag(CarryBit)
  ELSE WasFlag(CarryBit)

\* The last step changed PC to `to`, SP to `stack`, and nothing else.
BranchedTo(to, stack, cycles) ==
  /\ Now("pc") = to % 65536
  /\ Now("sp") = stack % 65536
  /\ \A r \in RegNames \ {"pc", "sp"} : Now(r) = Was(r)
  /\ mmu = last.before.mmu
  /\ ret = cycles

\* C31: JR cc,n / JP cc,nn / RET cc with a false condition change nothing
\* but PC, which ends at the following instruction, and cost 2 / 3 / 2
\* M-cycles; with a true condition the branch is taken and they cost
\* 3 / 4 / 5 M-cycles.
C31_ConditionalBranches ==
  \A cc \in 0 .. 3 :
    /\ Stepped(32 + 8 * cc) =>
         IF ConditionWas(cc)
           THEN BranchedTo(Was("pc") + 2
                             + (IF OperandByte <= 127 THEN OperandByte
                                ELSE OperandByte - 256) + 65536,
                           Was("sp"), 3)
           ELSE BranchedTo(Was("pc") + 2, Was("sp"), 2)
    /\ Stepped(194 + 8 * cc) =>
         IF ConditionWas(cc)
           THEN BranchedTo(PeekWord(last.before.mmu, (Was("pc") + 1) % 65536),
                           Was("sp"), 4)
           ELSE BranchedTo(Was("pc") + 3, Was("sp"), 3)
    /\ Stepped(192 + 8 * cc) =>
         IF ConditionWas(cc)
           THEN BranchedTo(PeekWord(last.before.mmu, Was("sp")),
                           Was("sp") + 2, 5)
           ELSE BranchedTo(Was("pc") + 1, Was("sp"), 2)

\* C31 witness: JP C,nn at 0xFE with the carry clear skipped its operand,
\* the second byte of which lies past the BIOS image, and cost 3 M-cycles.
C31_JumpNotTaken ==
  /\ Stepped(218) /\ ~WasFlag(CarryBit) /\ Was("pc") = 254
  /\ Now("pc") = 257 /\ ret = 3

\* The step before the last one was a successful RST t.
RestartedBefore ==
  /\ earlier.op = "step" /\ earlier.error = NoError
  /\ earlier.opcode \in {199 + 8 * t : t \in 0 .. 7}

C33_CallNotTakenSkipsOperand ==
  \A cc \in 0 .. 3 :
    (Stepped(196 + 8 * cc) /\ ~ConditionWas(cc)) =>
      BranchedTo(Was("pc") + 3, Was("sp"), 3)

\* The byte at the address in HL before and after the last step.
WasAtHL == Peek(last.before.mmu, Was("hl"))

NowAtHL == Peek(mmu, Was("hl"))

\* The last step wrote `written` at HL with the flags of INC / DEC.
MemorySteppedAsClaimed(written, subtract, half) ==
  /\ NowAtHL = written
  /\ NowFlag(ZeroBit) = (written = 0)
  /\ NowFlag(SubtractBit) = subtract
  /\ NowFlag(HalfCarryBit) = half
  /\ NowFlag(CarryBit) = WasFlag(CarryBit)
  /\ ret = 3

\* C34: INC (HL) and DEC (HL) write (v +/- 1) & 0xFF back at HL, set Z
\* exactly when the written byte is 0 (INC (HL) on 0xFF writes 0x00 and
\* sets Z and H), N = 0 for INC and 1 for DEC, leave C unchanged, and take
\* 3 M-cycles.
C34_IncDecMemory ==
  /\ Stepped(52) =>
       MemorySteppedAsClaimed((WasAtHL + 1) % 256, FALSE, (WasAtHL % 16) + 1 > 15)
  /\ Stepped(53) =>
       MemorySteppedAsClaimed((WasAtHL - 1) % 256, TRUE, WasAtHL % 16 = 0)

\* C35: OR (HL) ORs A with the byte at the address in HL, sets
\* Z = (result = 0) and N = H = C = 0, and takes 2 M-cycles like AND (HL),
\* XOR (HL) and CP (HL).
C35_OrWithMemory ==
  /\ Stepped(182) =>
       /\ \A i \in 0 .. 7 :
            BitOf(Now("a"), i) = (IF BitOf(Was("a"), i) = 1 \/ BitOf(WasAtHL, i) = 1
                                 THEN 1 ELSE 0)
       /\ NowFlag(ZeroBit) = (Now("a") = 0)
       /\ ~NowFlag(SubtractBit) /\ ~NowFlag(HalfCarryBit) /\ ~NowFlag(CarryBit)
       /\ ret = 2
  /\ (Stepped(166) \/ Stepped(174) \/ Stepped(190)) => ret = 2

\* C36: writeByte masks its address to 16 bits as readByte does, so the
\* high byte of writeWord(0xFFFF, v) is written to address 0x0000, the cell
\* readWord(0xFFFF) reads its high byte from, and the word reads back.
C36_WordAcrossTop ==
  /\ Called("writeWord", 65535) =>
       Peek(mmu, 0) = (last.value % 65536) \div 256
  /\ (/\ Called("readWord", 65535)
      /\ earlier.op = "writeWord" /\ earlier.address = 65535
      /\ earlier.error = NoError)
       => ret = earlier.value % 65536

FromBCD(byte) == 10 * (byte \div 16) + (byte % 16)

ToBCD(n) == 16 * (n \div 10) + (n % 10)

\* The last step was DAA, right after a successful step of `opcode` whose
\* A and operand were packed BCD bytes.
AdjustedAfter(opcode) ==
  /\ Stepped(39)
  /\ earlier.op = "step" /\ earlier.error = NoError /\ earlier.opcode = opcode
  /\ RegValue(earlier.before.registers, "a") \in BCDBytes
  /\ Peek(earlier.before.mmu, RegValue(earlier.before.registers, "pc") + 1)
       \in BCDBytes

\* The numbers A and the operand of that earlier step encoded.
FirstDecimal == FromBCD(RegValue(earlier.before.registers, "a"))

SecondDecimal ==
  FromBCD(Peek(earlier.before.mmu, RegValue(earlier.before.registers, "pc") + 1))

\* C38: for packed BCD a and b, ADD A,b then DAA leaves the packed BCD of
\* (a + b) mod 100 in A with C = (a + b >= 100); SUB b then DAA leaves the
\* packed BCD of (a - b) mod 100 with C = (a < b).
C38_DecimalArithmetic ==
  /\ AdjustedAfter(198) =>
       /\ Now("a") = ToBCD((FirstDecimal + SecondDecimal) % 100)
       /\ NowFlag(CarryBit) = (FirstDecimal + SecondDecimal >= 100)
  /\ AdjustedAfter(214) =>
       /\ Now("a") = ToBCD((FirstDecimal - SecondDecimal) % 100)
       /\ NowFlag(CarryBit) = (FirstDecimal < SecondDecimal)

\* C38 witness: 95 + 05: ADD left 0x9A, DAA made it 0x00 with the carry.
C38_NinetyFivePlusFive ==
  /\ AdjustedAfter(198) /\ FirstDecimal = 95 /\ SecondDecimal = 5
  /\ Was("a") = 154 /\ Now("a") = 0 /\ NowFlag(CarryBit)

\* The last step was the high-byte instruction `high` of a program whose
\* low-byte instruction was `low`.
Chained(low, high) ==
  /\ Stepped(high) /\ Was("pc") = 4
  /\ Known(mmu.BIOS, 0) /\ Cell(mmu.BIOS, 0) = low
  /\ Known(mmu.BIOS, 1)

\* x is in B and D, y in the operand bytes, the result in A and C.
ChainX == 256 * Now("b") + Now("d")

ChainY == 256 * Cell(mmu.BIOS, 5) + Cell(mmu.BIOS, 1)

ChainResult == 256 * Now("a") + Now("c")

\* C39: ADD of the low bytes followed by ADC of the high bytes, with only
\* register loads in between, gives the two bytes of (x + y) mod 0x10000
\* and C = (x + y > 0xFFFF); SUB followed by SBC gives (x - y) mod 0x10000
\* and C = (x < y).
C39_CarryChains ==
  /\ Chained(198, 206) =>
       /\ ChainResult = (ChainX + ChainY) % 65536
       /\ NowFlag(CarryBit) = (ChainX + ChainY > 65535)
  /\ Chained(214, 222) =>
       /\ ChainResult = (ChainX - ChainY) % 65536
       /\ NowFlag(CarryBit) = (ChainX < ChainY)

\* C39 witness: 0x0100 - 0x0001 = 0x00FF: the SUB of the low bytes
\* borrowed, and the SBC of the high bytes took the borrow.
C39_BorrowTaken ==
  /\ Chained(214, 222) /\ ChainX = 256 /\ ChainY = 1
  /\ WasFlag(CarryBit) /\ ChainResult = 255 /\ ~NowFlag(CarryBit)

\* The addresses read before and after a write: those written, their
\* neighbours, and the addresses that share low bits with them.
FrameProbes ==
  (FrameAddresses \ {65536})
    \cup {1, 127, 128, 4097, 8192, 24576, 40961, 49153, 53248, 57345, 61440,
          65409, 65534}

\* The working-RAM mirror image of an address, or the address itself.
MirrorImage(a) ==
  IF a >= 49152 /\ a <= 56831 THEN a + 8192
  ELSE IF a >= 57344 /\ a <= 65023 THEN a - 8192
  ELSE a

====
